---- MODULE Spec2Model ----
(***************************************************************************)
(* Code redemption and reward ledger of muzloto_server.                    *)
(*                                                                         *)
(* The persisted tables are the shared state.  Every HTTP / webhook        *)
(* handler is a request that runs in a request slot; one action is the     *)
(* handler's code from one awaited database call up to the next one, so    *)
(* that requests interleave exactly at their awaits.  A database call is   *)
(* atomic.  Reads succeed and every acting user has a profile row; a       *)
(* write may fail where the handler looks at the returned error.           *)
(***************************************************************************)
EXTENDS Integers, Sequences, FiniteSets, TLC

(***************************************************************************)
(* Bounds of the model.                                                    *)
(***************************************************************************)
MaxStarts == 3        \* requests admitted over one behaviour
MaxMixedStarts == 2   \* the same, where requests of several kinds mix
MaxBalance == 60      \* the non-zero initial balance
MaxVisitStarts == 3   \* requests about the visit reward, one after the other
MaxSeqStarts == 2
MaxIssueStarts == 2
MaxTokenStarts == 4     \* requests admitted one after the other

Reqs == {"r1", "r2"}                  \* request slots that may overlap
Users == {"u1", "u2"}                 \* telegram ids with a profile row
Items == {"extra_card", "mug"}        \* catalog item ids
K1 == <<"B", "A", "2", "3", "4">>
K2 == <<"B", "C", "5", "6", "7">>
TicketCodes == {K1, K2}               \* values generateTicketCode can draw

(***************************************************************************)
(* Program constants.                                                      *)
(***************************************************************************)
ticketMaxAttempts == 10
maxAttempts == 10
BINGO_REWARD == 100
TOKEN_TTL_MS == 300000
REGISTRATION_REWARD == 5
VISIT_REWARD_EVERY == 5
\* the coins of the repeating visit reward
VISIT_REWARD_COINS == REGISTRATION_REWARD

NoCode == <<>>        \* null returned by a normaliser
NoRow == "none"       \* maybeSingle() without a row
NULL == 0             \* used_at of an unused code; timestamps are >= 1

(***************************************************************************)
(* Strings are sequences of one-character strings.                         *)
(***************************************************************************)
UpperAlnum == {"A", "B", "C", "0", "1", "2", "3", "4", "5"}
Digits == {"0", "1", "2", "3", "4", "5"}

toUpperChar(c) ==
  CASE c = "a" -> "A"
    [] c = "b" -> "B"
    [] c = "c" -> "C"
    [] OTHER -> c

toUpperCase(s) == [i \in 1..Len(s) |-> toUpperChar(s[i])]

RECURSIVE trimStart(_)
trimStart(s) ==
  IF s # <<>> /\ Head(s) = " " THEN trimStart(Tail(s)) ELSE s

RECURSIVE trimEnd(_)
trimEnd(s) ==
  IF s # <<>> /\ s[Len(s)] = " " THEN trimEnd(SubSeq(s, 1, Len(s) - 1)) ELSE s

trim(s) == trimEnd(trimStart(s))

\* /^[A-Z0-9]+$/.test(t)
IsUpperAlnum(t) == t # <<>> /\ \A i \in 1..Len(t) : t[i] \in UpperAlnum

\* /^\d+$/.test(t)
IsDigits(t) == t # <<>> /\ \A i \in 1..Len(t) : t[i] \in Digits

\* catalog.ts: a purchase code is 'C' + 5 characters
normalizePurchaseCode(input) ==
  LET t == toUpperCase(trim(input)) IN
    IF Len(t) = 6 /\ t[1] = "C" /\ IsUpperAlnum(t) THEN t
    ELSE IF Len(t) = 5 /\ IsUpperAlnum(t) THEN <<"C">> \o t
    ELSE NoCode

(***************************************************************************)
(* Prices: config/rewards overrides the price stored in the catalog row.   *)
(***************************************************************************)
NoPrice == -1

getCatalogItemPrice(itemId) ==
  CASE itemId = "extra_card" -> 25
    [] itemId = "free_ticket" -> 100
    [] OTHER -> NoPrice

\* the price column of the catalog rows of the model
RowPrice(itemId) == IF itemId = "extra_card" THEN 30 ELSE 10

\* getCatalogItemPrice(item.id) ?? Number(item.price)
ItemPrice(itemId) ==
  IF getCatalogItemPrice(itemId) # NoPrice
    THEN getCatalogItemPrice(itemId)
    ELSE RowPrice(itemId)

(***************************************************************************)
(* The rows of catalog_purchase_codes in the model.                        *)
(***************************************************************************)
PC1 == <<"C", "A", "B", "1", "2", "3">>
PurchaseCodes == {PC1}
PurchaseCodeItem(c) == "extra_card"

\* the rows of event_prize_codes in the model: 'B' + 4 characters
PZ1 == <<"B", "A", "1", "2", "3">>
PrizeCodes == {PZ1}
PrizeCoins(c) == 75
BINGO_TEST_CODE == <<"B", "0", "0", "0", "0">>

\* the tables the code generating handlers insert into
IssueTables == {"event_prize_codes", "events", "catalog_purchase_codes"}

\* values randomPart() can draw: 'B' + 4 characters of chars
PrizeCandidates == {K1, K2}

\* values generateEventCode() can draw: 5 characters of EVENT_CODE_CHARS
EV1 == <<"E", "V", "2", "3", "4">>
EventCandidates == {EV1, K1}

\* values generatePurchaseCode() can draw
PC2 == <<"C", "X", "Y", "4", "5", "6">>
PurchaseCandidates == {PC1, PC2}

IssueCodes == PrizeCandidates \cup EventCandidates \cup PurchaseCandidates

NoIssued == [ k \in IssueTables \X IssueCodes |-> 0 ]

\* the teams awards are asked for: <<team_id, event_id>>
AwardTeams == { <<"t1", "e1">>, <<"t2", "e1">> }

\* no row of event_team_stats yet
NoTeamStats ==
  [ k \in AwardTeams |->
      [ exists |-> FALSE, total_coins_earned |-> 0, bingo_wins_count |-> 0 ] ]

NoTeamAwards == [ k \in AwardTeams |-> [ coins |-> 0, wins |-> 0 ] ]

\* the rows of table codes in the model: 5 digits
SC1 == <<"1", "2", "3", "4", "5">>
RC1 == <<"5", "4", "3", "2", "1">>
RC2 == <<"5", "5", "5", "5", "5">>
StoredCodes == {SC1, RC1, RC2}
CodeType(c) == IF c = SC1 THEN "purchase" ELSE "registration"

\* table events: e1 takes place today, e2 took place yesterday
Events == {"e1", "e2"}
EventOfCode(c) == IF c = RC1 THEN "e1" ELSE "e2"
DayMs == 24 * 60 * 60 * 1000
InitEvents ==
  [ e \in Events |->
      [ code |-> IF e = "e1" THEN RC1 ELSE RC2,
        event_date |-> IF e = "e1" THEN 0 ELSE 0 - DayMs ] ]

\* table event_teams: <<id, event_id>>
event_teams == { <<"t1", "e1">> }

\* midnight of the day of t
getStartOfTodayMoscow(t) == t - (t % DayMs)

\* the entries of ACHIEVEMENTS the model keeps, in the order of the table
ACHIEVEMENTS ==
  << [ slug |-> "first_verse", statKey |-> "games_visited", threshold |-> 1, coinReward |-> 0 ],
     [ slug |-> "in_rhythm", statKey |-> "games_visited", threshold |-> 5, coinReward |-> 15 ],
     [ slug |-> "buying_for_friends", statKey |-> "tickets_purchased", threshold |-> 5,
       coinReward |-> 50 ] >>
Slugs == { ACHIEVEMENTS[i].slug : i \in DOMAIN ACHIEVEMENTS }
PurchaseThresholds == {1, 3, 5}
PurchaseKey(threshold) ==
  IF threshold = 1 THEN "purchase_reward_1_claimed_at"
  ELSE IF threshold = 3 THEN "purchase_reward_3_claimed_at"
  ELSE "purchase_reward_5_claimed_at"
\* the coins per threshold, as the constants of a deployment set them
PURCHASE_ACHIEVEMENT_REWARDS(threshold) ==
  IF threshold = 1 THEN 2 ELSE IF threshold = 3 THEN 10 ELSE 30

\* the rewards the ghost rewardCoins keeps apart
RewardKeys == {"visit", "purchase"} \cup Slugs

\* the fixed code of POST /events/register that needs no event
REGISTER_TEST_CODE == <<"0", "0", "0", "0", "0">>

\* request bodies of POST /redeem-purchase-code
RedeemInputs ==
  { PC1,                                   \* the stored code
    <<" ", "a", "b", "1", "2", "3">>,      \* 5 characters, lower case, padded
    <<"C", "5", "5", "5", "5", "5">>,      \* well-formed, not stored
    <<"A", "B", "1">> }                    \* malformed

VARIABLES
  catalog,                 \* ids of the rows of table catalog
  profiles,                \* profiles.balance by telegram_id
  catalog_purchase_codes,  \* code -> [catalog_item_id, used_at, used_by_telegram_id]
  tickets,                 \* rows of table tickets
  user_stats,              \* telegram_id -> counters
  event_prize_codes,       \* code -> [coins_amount, used_at, telegram_id]
  prizeCredited,           \* prize code -> coins added to balances for it so far
  codes,                   \* table codes: code -> [type, catalog_item_id, event_id, used_at, owner_telegram_id]
  transactionTokens,       \* the in-memory map token -> [telegramId, amount, type, expiresAt]
  events,                  \* table events: id -> [code, event_date]
  registrations,           \* rows of table registrations per <<event_id, telegram_id>>
  ledger,                  \* telegram_id -> initial balance plus credits minus debits of the
                           \* requests answered with success
  user_achievements,       \* <<telegram_id, achievement_slug>> -> [exists, reward_claimed_at]
  rewardCoins,             \* telegram_id -> reward -> coins added to the balance for it so far
  unlockReports,           \* <<telegram_id, achievement_slug>> -> calls that reported it newly unlocked
  issued,                  \* <<table, code>> -> rows the code generating handlers inserted
  event_team_stats,        \* table event_team_stats: <<team_id, event_id>> -> [exists, total_coins_earned, bingo_wins_count]
  teamAwards,              \* <<team_id, event_id>> -> [coins, wins] of the awards answered with success
  now,                     \* the next timestamp new Date() returns
  budget,                  \* requests that may still be admitted
  req                      \* request slot -> position and locals of its handler

vars == <<catalog, profiles, catalog_purchase_codes, tickets, user_stats,
          event_prize_codes, prizeCredited, codes, transactionTokens,
          events, registrations, ledger, user_achievements, rewardCoins,
          unlockReports, issued,
          event_team_stats, teamAwards, now, budget, req>>

\* every persisted table
tables == <<catalog, profiles, catalog_purchase_codes, tickets, user_stats,
            event_prize_codes, codes, events, registrations, user_achievements>>

\* the tables no handler of routes/catalog.ts touches
NotShop == <<event_prize_codes, prizeCredited, codes, transactionTokens,
            events, registrations, user_achievements, rewardCoins, unlockReports, issued,
          event_team_stats, teamAwards>>

\* the tables no handler of routes/bingo.ts touches
NotBingo == <<catalog, catalog_purchase_codes, tickets, codes, transactionTokens,
             events, registrations, user_achievements, rewardCoins, unlockReports, issued,
          event_team_stats, teamAwards>>

\* the tables the bot's purchase confirmation does not touch
NotBuy == <<catalog, catalog_purchase_codes, tickets, event_prize_codes,
            prizeCredited, transactionTokens, events, registrations,
            user_achievements, rewardCoins, unlockReports, issued,
          event_team_stats, teamAwards>>

\* what POST /transactions/process does not touch
NotProcess == <<catalog, catalog_purchase_codes, tickets, user_stats,
                event_prize_codes, prizeCredited, codes, events, registrations,
                user_achievements, rewardCoins, unlockReports, issued,
          event_team_stats, teamAwards>>

(***************************************************************************)
(* A request slot.  writes is the set of tables the request has written,   *)
(* usedAtStart tells whether its code was used when the request arrived,   *)
(* afterRefusal the refusal of an earlier request for the same code that   *)
(* had been answered when this one arrived, seen what the tables held for  *)
(* the user when the request arrived.                                      *)
(***************************************************************************)
NoSnapshot == <<>>

IdleReq ==
  [ kind |-> "none", pc |-> "idle", telegramId |-> "u1", code |-> NoCode,
    rowId |-> NoCode, itemId |-> "none", price |-> 0, newBalance |-> 0,
    tAttempt |-> 0, coinsToAdd |-> 0, target |-> "none", type |-> "none",
    eventId |-> "none", team_id |-> "", stats |-> NoSnapshot,
    pending |-> {}, failed |-> FALSE, newlyUnlocked |-> {}, totalCoinReward |-> 0,
    achievement_slug |-> "", threshold |-> 0, toClaim |-> {}, result |-> "none",
    writes |-> {}, usedAtStart |-> FALSE, afterRefusal |-> "none",
    seen |-> NoSnapshot, sent |-> "none" ]

\* what the tables hold for user u
Snapshot(u) ==
  [ balance |-> profiles[u], stats |-> user_stats[u],
    rows |-> [ e \in Events |-> registrations[<<e, u>>] ],
    achievements |-> [ sl \in Slugs |-> user_achievements[<<u, sl>>] ] ]

Fresh(u) == [ IdleReq EXCEPT !.telegramId = u, !.seen = Snapshot(u) ]

\* the response is sent: the locals die with the handler
Respond(q, res) ==
  [ q EXCEPT !.pc = "done", !.result = res, !.rowId = NoCode,
             !.itemId = "none", !.price = 0, !.newBalance = 0, !.tAttempt = 0,
             !.coinsToAdd = 0, !.target = "none", !.type = "none",
             !.eventId = "none", !.team_id = "", !.stats = NoSnapshot,
             !.pending = {}, !.failed = FALSE, !.toClaim = {}, !.seen = NoSnapshot ]

TicketRow(code, telegramId, itemId) ==
  [ code |-> code, telegram_id |-> telegramId, catalog_item_id |-> itemId,
    used_at |-> NULL ]

TicketCodeTaken(code) == \E t \in tickets : t.code = code

IsUsed(c) == catalog_purchase_codes[c].used_at # NULL

\* A request arrives and takes a free slot; the slots are interchangeable,
\* the second one is taken only once the first one has been.
Admit(r) ==
  /\ req[r].pc \in {"idle", "done"}
  /\ r = "r1" \/ req["r1"].pc # "idle"
  /\ budget > 0
  /\ budget' = budget - 1

\* the refusal, already answered, of a request of the same kind for the code
RefusalSeen(kind, code) ==
  IF \E q \in Reqs : /\ req[q].pc = "done" /\ req[q].kind = kind
                     /\ req[q].code = code /\ req[q].result = "target_not_found"
    THEN "target_not_found"
  ELSE IF \E q \in Reqs : /\ req[q].pc = "done" /\ req[q].kind = kind
                          /\ req[q].code = code /\ req[q].result = "insufficient"
    THEN "insufficient"
  ELSE "none"

(***************************************************************************)
(* POST /api/catalog/redeem-purchase-code (catalog.ts)                     *)
(***************************************************************************)
RedeemStart(r, u, rawCode) ==
  /\ Admit(r)
  /\ LET code == normalizePurchaseCode(rawCode)
         q == [ IdleReq EXCEPT !.kind = "redeem", !.telegramId = u,
                               !.code = code,
                               !.usedAtStart = (code \in PurchaseCodes /\ IsUsed(code)),
                               !.afterRefusal = RefusalSeen("redeem", code) ]
     IN req' = [ req EXCEPT ![r] =
                   IF code = NoCode THEN Respond(q, "bad_format")
                   ELSE [ q EXCEPT !.pc = "lookup" ] ]
  /\ UNCHANGED <<catalog, profiles, catalog_purchase_codes, tickets,
                 user_stats, now, NotShop, ledger>>

\* the mutant: the lookup does not look at used_at
RedeemLookup_IgnoresUsedAt(r) ==
  /\ req[r].kind = "redeem" /\ req[r].pc = "lookup"
  /\ LET code == req[r].code IN
       req' = [ req EXCEPT ![r] =
         IF code \notin PurchaseCodes THEN Respond(@, "code_not_found")
         ELSE [ @ EXCEPT !.pc = "item", !.rowId = code,
                         !.itemId = catalog_purchase_codes[code].catalog_item_id ] ]
  /\ UNCHANGED <<catalog, profiles, catalog_purchase_codes, tickets,
                 user_stats, now, budget, NotShop, ledger>>

RedeemLookup(r) ==
  /\ req[r].kind = "redeem" /\ req[r].pc = "lookup"
  /\ LET code == req[r].code IN
       req' = [ req EXCEPT ![r] =
         IF code \notin PurchaseCodes THEN Respond(@, "code_not_found")
         ELSE IF catalog_purchase_codes[code].used_at # NULL
           THEN Respond(@, "already_used")
         ELSE [ @ EXCEPT !.pc = "item", !.rowId = code,
                         !.itemId = catalog_purchase_codes[code].catalog_item_id ] ]
  /\ UNCHANGED <<catalog, profiles, catalog_purchase_codes, tickets,
                 user_stats, now, budget, NotShop, ledger>>

\* the mutant: the item row is not looked for
RedeemItem_IgnoresMissingItem(r) ==
  /\ req[r].kind = "redeem" /\ req[r].pc = "item"
  /\ req' = [ req EXCEPT ![r].pc = "profile", ![r].price = ItemPrice(req[r].itemId) ]
  /\ UNCHANGED <<catalog, profiles, catalog_purchase_codes, tickets,
                 user_stats, now, budget, NotShop, ledger>>

RedeemItem(r) ==
  /\ req[r].kind = "redeem" /\ req[r].pc = "item"
  /\ req' = [ req EXCEPT ![r] =
       IF req[r].itemId \notin catalog THEN Respond(@, "target_not_found")
       ELSE [ @ EXCEPT !.pc = "profile", !.price = ItemPrice(req[r].itemId) ] ]
  /\ UNCHANGED <<catalog, profiles, catalog_purchase_codes, tickets,
                 user_stats, now, budget, NotShop, ledger>>

RedeemProfile(r) ==
  /\ req[r].kind = "redeem" /\ req[r].pc = "profile"
  /\ LET balance == profiles[req[r].telegramId] IN
       req' = [ req EXCEPT ![r] =
         IF balance < req[r].price THEN Respond(@, "insufficient")
         ELSE [ @ EXCEPT !.pc = "debit", !.newBalance = balance - req[r].price ] ]
  /\ UNCHANGED <<catalog, profiles, catalog_purchase_codes, tickets,
                 user_stats, now, budget, NotShop, ledger>>

RedeemDebit(r) ==
  /\ req[r].kind = "redeem" /\ req[r].pc = "debit"
  /\ \/ /\ profiles' = [ profiles EXCEPT ![req[r].telegramId] = req[r].newBalance ]
        /\ req' = [ req EXCEPT ![r].pc = "ticket", ![r].writes = @ \cup {"balance"} ]
     \/ /\ req' = [ req EXCEPT ![r] = Respond(@, "error") ]   \* updateProfileError
        /\ UNCHANGED profiles
  /\ UNCHANGED <<catalog, catalog_purchase_codes, tickets, user_stats, now,
                 budget, NotShop, ledger>>

\* one pass of the ticket insert loop with a freshly generated ticketCode
RedeemTicketInsert(r) ==
  /\ req[r].kind = "redeem" /\ req[r].pc = "ticket"
  /\ \E ticketCode \in TicketCodes :
       \/ /\ ~TicketCodeTaken(ticketCode)
          /\ tickets' = tickets \cup
               { TicketRow(ticketCode, req[r].telegramId, req[r].itemId) }
          /\ req' = [ req EXCEPT ![r].pc = "mark", ![r].writes = @ \cup {"ticket"} ]
       \/ /\ TicketCodeTaken(ticketCode)                     \* 23505
          /\ UNCHANGED tickets
          /\ req' = [ req EXCEPT ![r] =
               IF req[r].tAttempt + 1 < ticketMaxAttempts
                 THEN [ @ EXCEPT !.tAttempt = @ + 1 ]
                 ELSE Respond(@, "error") ]
       \/ /\ UNCHANGED tickets                               \* another ticketError
          /\ req' = [ req EXCEPT ![r] = Respond(@, "error") ]
  /\ UNCHANGED <<catalog, profiles, catalog_purchase_codes, user_stats, now,
                 budget, NotShop, ledger>>

\* update({used_at, used_by_telegram_id}).eq('id', purchaseRow.id)
MarkPurchaseCodeUsed(rows, id, telegramId, usedAt) ==
  [ rows EXCEPT ![id].used_at = usedAt, ![id].used_by_telegram_id = telegramId ]

RedeemMarkUsed(r) ==
  /\ req[r].kind = "redeem" /\ req[r].pc = "mark"
  /\ \/ /\ catalog_purchase_codes' =
             MarkPurchaseCodeUsed(catalog_purchase_codes, req[r].rowId,
                                  req[r].telegramId, now)
        /\ now' = now + 1
        /\ req' = [ req EXCEPT ![r].pc = "stat", ![r].writes = @ \cup {"code"} ]
     \/ /\ req' = [ req EXCEPT ![r] = Respond(@, "error") ]   \* markUsedError
        /\ UNCHANGED <<catalog_purchase_codes, now>>
  /\ UNCHANGED <<catalog, profiles, tickets, user_stats, budget, NotShop, ledger>>

\* rpc increment_user_stat
incrementUserStat(stats, telegramId, statKey) ==
  [ stats EXCEPT ![telegramId][statKey] = @ + 1 ]

\* incrementUserStat, checkAndUnlockAchievements (returns the empty result), res.json
RedeemIncrementStat(r) ==
  /\ req[r].kind = "redeem" /\ req[r].pc = "stat"
  /\ \/ /\ user_stats' = incrementUserStat(user_stats, req[r].telegramId, "tickets_purchased")
        /\ ledger' = [ ledger EXCEPT ![req[r].telegramId] = @ - req[r].price ]
        /\ req' = [ req EXCEPT ![r] = Respond([ @ EXCEPT !.writes = @ \cup {"stat"} ], "ok") ]
     \/ /\ req' = [ req EXCEPT ![r] = Respond(@, "error") ]
        /\ UNCHANGED <<user_stats, ledger>>
  /\ UNCHANGED <<catalog, profiles, catalog_purchase_codes, tickets, now,
                 budget, NotShop>>

(***************************************************************************)
(* DELETE and POST /api/admin/catalog: the row of an item goes and comes.  *)
(***************************************************************************)
AdminDeleteCatalog(id) ==
  /\ budget > 0
  /\ budget' = budget - 1
  /\ id \in catalog
  /\ catalog' = catalog \ {id}
  /\ UNCHANGED <<profiles, catalog_purchase_codes, tickets, user_stats, now,
                 req, NotShop, ledger>>

AdminCreateCatalog(id) ==
  /\ budget > 0
  /\ budget' = budget - 1
  /\ id \notin catalog
  /\ catalog' = catalog \cup {id}
  /\ UNCHANGED <<profiles, catalog_purchase_codes, tickets, user_stats, now,
                 req, NotShop, ledger>>

(***************************************************************************)
(* Specification of the purchase-code redemption.                          *)
(***************************************************************************)
StatsRow(games_visited, visit_rewards_claimed, tickets_purchased) ==
  [ games_visited |-> games_visited, tickets_purchased |-> tickets_purchased,
    bingo_collected |-> 0, visit_rewards_claimed |-> visit_rewards_claimed,
    purchase_reward_1_claimed_at |-> NULL, purchase_reward_3_claimed_at |-> NULL,
    purchase_reward_5_claimed_at |-> NULL ]

InitStats == [ u \in Users |-> StatsRow(0, 0, 0) ]

\* no row of user_achievements, and a row as checkAndUnlockAchievements inserts it
NoAchievementRow == [ exists |-> FALSE, reward_claimed_at |-> NULL ]
NewAchievementRow == [ exists |-> TRUE, reward_claimed_at |-> NULL ]

InitAchievements == [ k \in Users \X Slugs |-> NoAchievementRow ]

InitPurchaseCodes ==
  [ c \in PurchaseCodes |->
      [ catalog_item_id |-> PurchaseCodeItem(c), used_at |-> NULL,
        used_by_telegram_id |-> "none" ] ]

InitCodes ==
  [ c \in StoredCodes |->
      [ type |-> CodeType(c),
        catalog_item_id |-> IF CodeType(c) = "purchase" THEN "mug" ELSE "none",
        event_id |-> IF CodeType(c) = "registration" THEN EventOfCode(c) ELSE "none",
        used_at |-> NULL, owner_telegram_id |-> "none" ] ]

InitPrizeCodes ==
  [ c \in PrizeCodes |->
      [ coins_amount |-> PrizeCoins(c), used_at |-> NULL, telegram_id |-> "none" ] ]

InitRedeem ==
  /\ catalog \in { Items, Items \ {"extra_card"} }
  /\ profiles \in { [ u \in Users |-> MaxBalance ],
                     [ u \in Users |-> IF u = "u1" THEN 0 ELSE MaxBalance ] }
  /\ catalog_purchase_codes = InitPurchaseCodes
  /\ tickets \in { {}, { TicketRow(tc, "u1", "mug") : tc \in TicketCodes } }
  /\ user_stats = InitStats
  /\ event_prize_codes = InitPrizeCodes
  /\ prizeCredited = [ c \in PrizeCodes |-> 0 ]
  /\ codes = InitCodes
  /\ transactionTokens = << >>
  /\ events = InitEvents
  /\ registrations = [ k \in Events \X Users |-> 0 ]
  /\ ledger = profiles
  /\ user_achievements = InitAchievements
  /\ rewardCoins = [ u \in Users |-> [ k \in RewardKeys |-> 0 ] ]
  /\ unlockReports = [ k \in Users \X Slugs |-> 0 ]
  /\ now = 1
  /\ budget = MaxStarts
  /\ issued = NoIssued
  /\ event_team_stats = NoTeamStats
  /\ teamAwards = NoTeamAwards
  /\ req = [ r \in Reqs |-> IdleReq ]

NextRedeem ==
  \/ \E r \in Reqs, u \in Users, rawCode \in RedeemInputs : RedeemStart(r, u, rawCode)
  \/ \E r \in Reqs : RedeemLookup(r)
  \/ \E r \in Reqs : RedeemItem(r)
  \/ \E r \in Reqs : RedeemProfile(r)
  \/ \E r \in Reqs : RedeemDebit(r)
  \/ \E r \in Reqs : RedeemTicketInsert(r)
  \/ \E r \in Reqs : RedeemMarkUsed(r)
  \/ \E r \in Reqs : RedeemIncrementStat(r)
  \/ \E id \in Items : AdminDeleteCatalog(id)
  \/ \E id \in Items : AdminCreateCatalog(id)

SpecRedeem == InitRedeem /\ [][NextRedeem]_vars

(***************************************************************************)
(* POST /api/bingo/claim (prize codes with the redeemer's telegram_id)     *)
(***************************************************************************)
\* request bodies of POST /claim
ClaimInputs ==
  { PZ1,                                   \* the stored prize code
    <<"b", "a", "1", "2", "3">>,           \* the same, lower case
    BINGO_TEST_CODE,
    <<"B", "5", "5", "5", "5">>,           \* well-formed, not stored
    <<"A", "A", "1", "2", "3">>,           \* does not start with B
    <<"B", "A", "1">> }                    \* wrong length

\* the mutant: the prefix of the bingo code is not checked
ClaimStart_IgnoresPrefix(r, u, code) ==
  /\ Admit(r)
  /\ LET normalizedCode == toUpperCase(code)
         q == [ Fresh(u) EXCEPT !.kind = "claim",
                               !.code = normalizedCode,
                               !.usedAtStart = ( /\ normalizedCode \in PrizeCodes
                                                 /\ event_prize_codes[normalizedCode].used_at # NULL ) ]
     IN req' = [ req EXCEPT ![r] =
                   IF Len(code) # 5 THEN Respond(q, "bad_format")
                   ELSE [ q EXCEPT !.pc = "prize_lookup", !.coinsToAdd = BINGO_REWARD ] ]
  /\ UNCHANGED <<profiles, user_stats, event_prize_codes, prizeCredited, now, NotBingo, ledger>>

ClaimStart(r, u, code) ==
  /\ Admit(r)
  /\ LET normalizedCode == toUpperCase(code)
         q == [ Fresh(u) EXCEPT !.kind = "claim",
                               !.code = normalizedCode,
                               !.usedAtStart = ( /\ normalizedCode \in PrizeCodes
                                                 /\ event_prize_codes[normalizedCode].used_at # NULL ) ]
     IN req' = [ req EXCEPT ![r] =
                   IF Len(code) # 5 THEN Respond(q, "bad_format")
                   ELSE IF normalizedCode[1] # "B" THEN Respond(q, "bad_format")
                   ELSE [ q EXCEPT !.pc = "prize_lookup", !.coinsToAdd = BINGO_REWARD ] ]
  /\ UNCHANGED <<profiles, user_stats, event_prize_codes, prizeCredited, now, NotBingo, ledger>>

\* select id, coins_amount where code = normalizedCode and used_at is null
ClaimLookup(r) ==
  /\ req[r].kind = "claim" /\ req[r].pc = "prize_lookup"
  /\ LET code == req[r].code IN
       req' = [ req EXCEPT ![r] =
         IF code \in PrizeCodes /\ event_prize_codes[code].used_at = NULL
           THEN [ @ EXCEPT !.pc = "prize_mark", !.rowId = code,
                           !.coinsToAdd = event_prize_codes[code].coins_amount ]
         ELSE IF code # BINGO_TEST_CODE THEN Respond(@, "code_not_found")
         ELSE [ @ EXCEPT !.pc = "profile" ] ]
  /\ UNCHANGED <<profiles, user_stats, event_prize_codes, prizeCredited, now,
                 budget, NotBingo, ledger>>

\* update({used_at, telegram_id}).eq('id', prizeCode.id)
MarkPrizeCodeUsed(rows, id, telegramId, usedAt) ==
  [ rows EXCEPT ![id].used_at = usedAt, ![id].telegram_id = telegramId ]

ClaimMarkUsed(r) ==
  /\ req[r].kind = "claim" /\ req[r].pc = "prize_mark"
  /\ \/ /\ event_prize_codes' =
             MarkPrizeCodeUsed(event_prize_codes, req[r].rowId, req[r].telegramId, now)
        /\ now' = now + 1
        /\ req' = [ req EXCEPT ![r].pc = "profile", ![r].writes = @ \cup {"code"} ]
     \/ /\ req' = [ req EXCEPT ![r] = Respond(@, "error") ]   \* markUsedError
        /\ UNCHANGED <<event_prize_codes, now>>
  /\ UNCHANGED <<profiles, user_stats, prizeCredited, budget, NotBingo, ledger>>

ClaimProfile(r) ==
  /\ req[r].kind = "claim" /\ req[r].pc = "profile"
  /\ LET oldBalance == profiles[req[r].telegramId] IN
       req' = [ req EXCEPT ![r].pc = "credit",
                           ![r].newBalance = oldBalance + req[r].coinsToAdd ]
  /\ UNCHANGED <<profiles, user_stats, event_prize_codes, prizeCredited, now,
                 budget, NotBingo, ledger>>

ClaimCredit(r) ==
  /\ req[r].kind = "claim" /\ req[r].pc = "credit"
  /\ \/ /\ profiles' = [ profiles EXCEPT ![req[r].telegramId] = req[r].newBalance ]
        /\ prizeCredited' =
             IF req[r].rowId \in PrizeCodes
               THEN [ prizeCredited EXCEPT ![req[r].rowId] =
                        @ + req[r].newBalance - profiles[req[r].telegramId] ]
               ELSE prizeCredited
        /\ req' = [ req EXCEPT ![r].pc = "stat", ![r].writes = @ \cup {"balance"} ]
     \/ /\ req' = [ req EXCEPT ![r] = Respond(@, "error") ]   \* updateBalanceError
        /\ UNCHANGED <<profiles, prizeCredited>>
  /\ UNCHANGED <<user_stats, event_prize_codes, now, budget, NotBingo, ledger>>

\* incrementUserStat, checkAndUnlockAchievements (returns the empty result), res.json
ClaimIncrementStat(r) ==
  /\ req[r].kind = "claim" /\ req[r].pc = "stat"
  /\ \/ /\ user_stats' = incrementUserStat(user_stats, req[r].telegramId, "bingo_collected")
        /\ ledger' = [ ledger EXCEPT ![req[r].telegramId] = @ + req[r].coinsToAdd ]
        /\ req' = [ req EXCEPT ![r] = Respond([ @ EXCEPT !.writes = @ \cup {"stat"} ], "ok") ]
     \/ /\ req' = [ req EXCEPT ![r] = Respond(@, "error") ]
        /\ UNCHANGED <<user_stats, ledger>>
  /\ UNCHANGED <<profiles, event_prize_codes, prizeCredited, now, budget, NotBingo>>

InitBingo ==
  /\ catalog = Items
  /\ profiles = [ u \in Users |-> 0 ]
  /\ catalog_purchase_codes = InitPurchaseCodes
  /\ tickets = {}
  /\ user_stats = InitStats
  /\ event_prize_codes = InitPrizeCodes
  /\ prizeCredited = [ c \in PrizeCodes |-> 0 ]
  /\ codes = InitCodes
  /\ transactionTokens = << >>
  /\ events = InitEvents
  /\ registrations = [ k \in Events \X Users |-> 0 ]
  /\ ledger = profiles
  /\ user_achievements = InitAchievements
  /\ rewardCoins = [ u \in Users |-> [ k \in RewardKeys |-> 0 ] ]
  /\ unlockReports = [ k \in Users \X Slugs |-> 0 ]
  /\ now = 1
  /\ budget = MaxStarts
  /\ issued = NoIssued
  /\ event_team_stats = NoTeamStats
  /\ teamAwards = NoTeamAwards
  /\ req = [ r \in Reqs |-> IdleReq ]

NextBingo ==
  \/ \E r \in Reqs, u \in Users, code \in ClaimInputs : ClaimStart(r, u, code)
  \/ \E r \in Reqs : ClaimLookup(r)
  \/ \E r \in Reqs : ClaimMarkUsed(r)
  \/ \E r \in Reqs : ClaimProfile(r)
  \/ \E r \in Reqs : ClaimCredit(r)
  \/ \E r \in Reqs : ClaimIncrementStat(r)

SpecBingo == InitBingo /\ [][NextBingo]_vars

(***************************************************************************)
(* POST /api/catalog/purchase (catalog.ts)                                 *)
(***************************************************************************)
\* request bodies of POST /purchase: catalog_item_id
PurchaseInputs == Items \cup {"no_such_item", ""}

PurchaseStart(r, u, catalog_item_id) ==
  /\ Admit(r)
  /\ LET q == [ IdleReq EXCEPT !.kind = "purchase", !.telegramId = u,
                               !.itemId = catalog_item_id ]
     IN req' = [ req EXCEPT ![r] =
                   IF catalog_item_id = "" THEN Respond(q, "bad_format")
                   ELSE [ q EXCEPT !.pc = "item" ] ]
  /\ UNCHANGED <<catalog, profiles, catalog_purchase_codes, tickets,
                 user_stats, now, NotShop, ledger>>

PurchaseItem(r) ==
  /\ req[r].kind = "purchase" /\ req[r].pc = "item"
  /\ req' = [ req EXCEPT ![r] =
       IF req[r].itemId \notin catalog THEN Respond(@, "target_not_found")
       ELSE [ @ EXCEPT !.pc = "profile", !.price = ItemPrice(req[r].itemId) ] ]
  /\ UNCHANGED <<catalog, profiles, catalog_purchase_codes, tickets,
                 user_stats, now, budget, NotShop, ledger>>

\* the mutant: the balance is not compared with the price
PurchaseProfile_IgnoresBalance(r) ==
  /\ req[r].kind = "purchase" /\ req[r].pc = "profile"
  /\ LET balance == profiles[req[r].telegramId] IN
       req' = [ req EXCEPT ![r].pc = "debit", ![r].newBalance = balance - req[r].price ]
  /\ UNCHANGED <<catalog, profiles, catalog_purchase_codes, tickets,
                 user_stats, now, budget, NotShop, ledger>>

PurchaseProfile(r) ==
  /\ req[r].kind = "purchase" /\ req[r].pc = "profile"
  /\ LET balance == profiles[req[r].telegramId] IN
       req' = [ req EXCEPT ![r] =
         IF balance < req[r].price THEN Respond(@, "insufficient")
         ELSE [ @ EXCEPT !.pc = "debit", !.newBalance = balance - req[r].price ] ]
  /\ UNCHANGED <<catalog, profiles, catalog_purchase_codes, tickets,
                 user_stats, now, budget, NotShop, ledger>>

PurchaseDebit(r) ==
  /\ req[r].kind = "purchase" /\ req[r].pc = "debit"
  /\ \/ /\ profiles' = [ profiles EXCEPT ![req[r].telegramId] = req[r].newBalance ]
        /\ req' = [ req EXCEPT ![r].pc = "ticket", ![r].writes = @ \cup {"balance"} ]
     \/ /\ req' = [ req EXCEPT ![r] = Respond(@, "error") ]   \* updateError
        /\ UNCHANGED profiles
  /\ UNCHANGED <<catalog, catalog_purchase_codes, tickets, user_stats, now,
                 budget, NotShop, ledger>>

\* one pass of the ticket insert loop with a freshly generated code
PurchaseTicketInsert(r) ==
  /\ req[r].kind = "purchase" /\ req[r].pc = "ticket"
  /\ \E code \in TicketCodes :
       \/ /\ ~TicketCodeTaken(code)
          /\ tickets' = tickets \cup
               { TicketRow(code, req[r].telegramId, req[r].itemId) }
          /\ req' = [ req EXCEPT ![r].pc = "stat", ![r].writes = @ \cup {"ticket"} ]
       \/ /\ TicketCodeTaken(code)                           \* 23505
          /\ UNCHANGED tickets
          /\ req' = [ req EXCEPT ![r] =
               IF req[r].tAttempt + 1 < maxAttempts
                 THEN [ @ EXCEPT !.tAttempt = @ + 1 ]
                 ELSE Respond(@, "error") ]
       \/ /\ UNCHANGED tickets                               \* another insertError
          /\ req' = [ req EXCEPT ![r] = Respond(@, "error") ]
  /\ UNCHANGED <<catalog, profiles, catalog_purchase_codes, user_stats, now,
                 budget, NotShop, ledger>>

PurchaseIncrementStat(r) ==
  /\ req[r].kind = "purchase" /\ req[r].pc = "stat"
  /\ \/ /\ user_stats' = incrementUserStat(user_stats, req[r].telegramId, "tickets_purchased")
        /\ ledger' = [ ledger EXCEPT ![req[r].telegramId] = @ - req[r].price ]
        /\ req' = [ req EXCEPT ![r] = Respond([ @ EXCEPT !.writes = @ \cup {"stat"} ], "ok") ]
     \/ /\ req' = [ req EXCEPT ![r] = Respond(@, "error") ]
        /\ UNCHANGED <<user_stats, ledger>>
  /\ UNCHANGED <<catalog, profiles, catalog_purchase_codes, tickets, now,
                 budget, NotShop>>

(***************************************************************************)
(* The bot's callback buy_<code>: purchase confirmation (table codes)      *)
(***************************************************************************)
\* the code part of the callback data
BuyInputs == { SC1, RC1, <<"1", "2", "3">>, <<"A", "B", "1", "2", "3">> }

BuyStart(r, u, code) ==
  /\ Admit(r)
  /\ LET q == [ IdleReq EXCEPT !.kind = "buy", !.telegramId = u, !.code = code ]
     IN req' = [ req EXCEPT ![r] =
                   IF Len(code) # 5 \/ ~IsDigits(code) THEN Respond(q, "bad_format")
                   ELSE [ q EXCEPT !.pc = "lookup" ] ]
  /\ UNCHANGED <<profiles, user_stats, codes, now, NotBuy, ledger>>

\* select ... from codes where code = code and type = 'purchase'
BuyLookup(r) ==
  /\ req[r].kind = "buy" /\ req[r].pc = "lookup"
  /\ LET code == req[r].code
         found == code \in StoredCodes /\ codes[code].type = "purchase"
     IN req' = [ req EXCEPT ![r] =
          IF ~found \/ codes[code].catalog_item_id = "none" \/ codes[code].used_at # NULL
            THEN Respond(@, "code_invalid")
          ELSE [ @ EXCEPT !.pc = "item", !.rowId = code,
                          !.itemId = codes[code].catalog_item_id ] ]
  /\ UNCHANGED <<profiles, user_stats, codes, now, budget, NotBuy, ledger>>

BuyItem(r) ==
  /\ req[r].kind = "buy" /\ req[r].pc = "item"
  /\ req' = [ req EXCEPT ![r] =
       IF req[r].itemId \notin catalog THEN Respond(@, "target_not_found")
       ELSE [ @ EXCEPT !.pc = "profile", !.price = RowPrice(req[r].itemId) ] ]
  /\ UNCHANGED <<profiles, user_stats, codes, now, budget, NotBuy, ledger>>

BuyProfile(r) ==
  /\ req[r].kind = "buy" /\ req[r].pc = "profile"
  /\ LET balance == profiles[req[r].telegramId] IN
       req' = [ req EXCEPT ![r] =
         IF balance < req[r].price THEN Respond(@, "insufficient")
         ELSE [ @ EXCEPT !.pc = "debit", !.newBalance = balance - req[r].price ] ]
  /\ UNCHANGED <<profiles, user_stats, codes, now, budget, NotBuy, ledger>>

\* the result of the update is not looked at
BuyDebit(r) ==
  /\ req[r].kind = "buy" /\ req[r].pc = "debit"
  /\ \/ /\ profiles' = [ profiles EXCEPT ![req[r].telegramId] = req[r].newBalance ]
        /\ req' = [ req EXCEPT ![r].pc = "mark", ![r].writes = @ \cup {"balance"} ]
     \/ /\ req' = [ req EXCEPT ![r].pc = "mark" ]
        /\ UNCHANGED profiles
  /\ UNCHANGED <<user_stats, codes, now, budget, NotBuy, ledger>>

\* update({used_at, owner_telegram_id}).eq('id', purchaseRow.id)
MarkCodeUsed(rows, id, telegramId, usedAt) ==
  [ rows EXCEPT ![id].used_at = usedAt, ![id].owner_telegram_id = telegramId ]

\* the result of the update is not looked at
BuyMarkUsed(r) ==
  /\ req[r].kind = "buy" /\ req[r].pc = "mark"
  /\ \/ /\ codes' = MarkCodeUsed(codes, req[r].rowId, req[r].telegramId, now)
        /\ now' = now + 1
        /\ req' = [ req EXCEPT ![r].pc = "stat", ![r].writes = @ \cup {"code"} ]
     \/ /\ req' = [ req EXCEPT ![r].pc = "stat" ]
        /\ UNCHANGED <<codes, now>>
  /\ UNCHANGED <<profiles, user_stats, budget, NotBuy, ledger>>

BuyIncrementStat(r) ==
  /\ req[r].kind = "buy" /\ req[r].pc = "stat"
  /\ \/ /\ user_stats' = incrementUserStat(user_stats, req[r].telegramId, "tickets_purchased")
        /\ ledger' = [ ledger EXCEPT ![req[r].telegramId] = @ - req[r].price ]
        /\ req' = [ req EXCEPT ![r] = Respond([ @ EXCEPT !.writes = @ \cup {"stat"} ], "ok") ]
     \/ /\ req' = [ req EXCEPT ![r] = Respond(@, "error") ]
        /\ UNCHANGED <<user_stats, ledger>>
  /\ UNCHANGED <<profiles, codes, now, budget, NotBuy>>

(***************************************************************************)
(* POST /api/transactions/process                                          *)
(***************************************************************************)
Tokens == {"tokSub", "tokAdd", "tokOld"}
ProcessInputs == Tokens \cup {"tokUnknown", ""}

\* the mutant: a request refused with 403 removes the token
ProcessStart_ForgetsRejected(r, scannerTelegramId, token) ==
  /\ Admit(r)
  /\ LET q == [ IdleReq EXCEPT !.kind = "process", !.telegramId = scannerTelegramId,
                               !.rowId = token ]
         known == token \in DOMAIN transactionTokens
         transactionData == transactionTokens[token]
     IN IF token = "" THEN
          /\ req' = [ req EXCEPT ![r] = Respond(q, "bad_format") ]
          /\ UNCHANGED transactionTokens
        ELSE IF ~known THEN
          /\ req' = [ req EXCEPT ![r] = Respond(q, "token_not_found") ]
          /\ UNCHANGED transactionTokens
        ELSE IF transactionData.expiresAt < now THEN
          /\ transactionTokens' =
               [ t \in (DOMAIN transactionTokens) \ {token} |-> transactionTokens[t] ]
          /\ req' = [ req EXCEPT ![r] = Respond(q, "expired") ]
        ELSE IF transactionData.telegramId = scannerTelegramId THEN
          /\ req' = [ req EXCEPT ![r] = Respond(q, "forbidden") ]
          /\ transactionTokens' =
               [ t \in (DOMAIN transactionTokens) \ {token} |-> transactionTokens[t] ]
        ELSE
          /\ req' = [ req EXCEPT ![r] =
               [ q EXCEPT !.pc = "profile", !.target = transactionData.telegramId,
                          !.price = transactionData.amount,
                          !.type = transactionData.type ] ]
          /\ UNCHANGED transactionTokens
  /\ UNCHANGED <<profiles, now, NotProcess, ledger>>

\* the synchronous head of the handler: the map lookup and the three checks
ProcessStart(r, scannerTelegramId, token) ==
  /\ Admit(r)
  /\ LET q == [ IdleReq EXCEPT !.kind = "process", !.telegramId = scannerTelegramId,
                               !.rowId = token ]
         known == token \in DOMAIN transactionTokens
         transactionData == transactionTokens[token]
     IN IF token = "" THEN
          /\ req' = [ req EXCEPT ![r] = Respond(q, "bad_format") ]
          /\ UNCHANGED transactionTokens
        ELSE IF ~known THEN
          /\ req' = [ req EXCEPT ![r] = Respond(q, "token_not_found") ]
          /\ UNCHANGED transactionTokens
        ELSE IF transactionData.expiresAt < now THEN
          /\ transactionTokens' =
               [ t \in (DOMAIN transactionTokens) \ {token} |-> transactionTokens[t] ]
          /\ req' = [ req EXCEPT ![r] = Respond(q, "expired") ]
        ELSE IF transactionData.telegramId = scannerTelegramId THEN
          /\ req' = [ req EXCEPT ![r] = Respond(q, "forbidden") ]
          /\ UNCHANGED transactionTokens
        ELSE
          /\ req' = [ req EXCEPT ![r] =
               [ q EXCEPT !.pc = "profile", !.target = transactionData.telegramId,
                          !.price = transactionData.amount,
                          !.type = transactionData.type ] ]
          /\ UNCHANGED transactionTokens
  /\ UNCHANGED <<profiles, now, NotProcess, ledger>>

\* the mutant: 'subtract' does not compare the balance with the amount
ProcessProfile_IgnoresBalance(r) ==
  /\ req[r].kind = "process" /\ req[r].pc = "profile"
  /\ LET oldBalance == profiles[req[r].target]
         amount == req[r].price
     IN req' = [ req EXCEPT ![r] =
          IF req[r].type = "add"
            THEN [ @ EXCEPT !.pc = "update", !.newBalance = oldBalance + amount ]
          ELSE [ @ EXCEPT !.pc = "update", !.newBalance = oldBalance - amount ] ]
  /\ UNCHANGED <<profiles, transactionTokens, now, budget, NotProcess, ledger>>

ProcessProfile(r) ==
  /\ req[r].kind = "process" /\ req[r].pc = "profile"
  /\ LET oldBalance == profiles[req[r].target]
         amount == req[r].price
     IN req' = [ req EXCEPT ![r] =
          IF req[r].type = "add"
            THEN [ @ EXCEPT !.pc = "update", !.newBalance = oldBalance + amount ]
          ELSE IF oldBalance < amount THEN Respond(@, "insufficient")
          ELSE [ @ EXCEPT !.pc = "update", !.newBalance = oldBalance - amount ] ]
  /\ UNCHANGED <<profiles, transactionTokens, now, budget, NotProcess, ledger>>

ProcessUpdate(r) ==
  /\ req[r].kind = "process" /\ req[r].pc = "update"
  /\ \/ /\ profiles' = [ profiles EXCEPT ![req[r].target] = req[r].newBalance ]
        /\ transactionTokens' =
             [ t \in (DOMAIN transactionTokens) \ {req[r].rowId} |-> transactionTokens[t] ]
        /\ ledger' = [ ledger EXCEPT ![req[r].target] =
                         IF req[r].type = "add" THEN @ + req[r].price ELSE @ - req[r].price ]
        /\ req' = [ req EXCEPT ![r] = Respond([ @ EXCEPT !.writes = @ \cup {"balance"} ], "ok") ]
     \/ /\ req' = [ req EXCEPT ![r] = Respond(@, "error") ]   \* updateError
        /\ UNCHANGED <<profiles, transactionTokens, ledger>>
  /\ UNCHANGED <<now, budget, NotProcess>>

(***************************************************************************)
(* Specification of the debits of one user's balance: direct purchases,    *)
(* purchase-code redemptions, purchase confirmations in the bot and token  *)
(* transactions on the balance of u1; u2, whose balance is empty, redeems  *)
(* purchase codes and scans u1's tokens.                                   *)
(***************************************************************************)
InitTokens ==
  [ t \in Tokens |->
      [ telegramId |-> "u1",
        amount |-> IF t = "tokAdd" THEN 30 ELSE 40,
        type |-> IF t = "tokAdd" THEN "add" ELSE "subtract",
        expiresAt |-> IF t = "tokOld" THEN TOKEN_TTL_MS + 1
                                      ELSE TOKEN_TTL_MS + 2 + TOKEN_TTL_MS ] ]

InitDebit ==
  /\ catalog = Items
  /\ profiles = [ u \in Users |-> IF u = "u1" THEN MaxBalance ELSE 0 ]
  /\ catalog_purchase_codes = InitPurchaseCodes
  /\ tickets = {}
  /\ user_stats = InitStats
  /\ event_prize_codes = InitPrizeCodes
  /\ prizeCredited = [ c \in PrizeCodes |-> 0 ]
  /\ codes = InitCodes
  /\ transactionTokens = InitTokens
  /\ events = InitEvents
  /\ registrations = [ k \in Events \X Users |-> 0 ]
  /\ ledger = profiles
  /\ user_achievements = InitAchievements
  /\ rewardCoins = [ u \in Users |-> [ k \in RewardKeys |-> 0 ] ]
  /\ unlockReports = [ k \in Users \X Slugs |-> 0 ]
  /\ now = TOKEN_TTL_MS + 2
  /\ budget = MaxMixedStarts
  /\ issued = NoIssued
  /\ event_team_stats = NoTeamStats
  /\ teamAwards = NoTeamAwards
  /\ req = [ r \in Reqs |-> IdleReq ]

NextDebit ==
  \/ \E r \in Reqs, id \in PurchaseInputs : PurchaseStart(r, "u1", id)
  \/ \E r \in Reqs : PurchaseItem(r)
  \/ \E r \in Reqs : PurchaseProfile(r)
  \/ \E r \in Reqs : PurchaseDebit(r)
  \/ \E r \in Reqs : PurchaseTicketInsert(r)
  \/ \E r \in Reqs : PurchaseIncrementStat(r)
  \/ \E r \in Reqs, u \in Users, rawCode \in RedeemInputs : RedeemStart(r, u, rawCode)
  \/ \E r \in Reqs : RedeemLookup(r)
  \/ \E r \in Reqs : RedeemItem(r)
  \/ \E r \in Reqs : RedeemProfile(r)
  \/ \E r \in Reqs : RedeemDebit(r)
  \/ \E r \in Reqs : RedeemTicketInsert(r)
  \/ \E r \in Reqs : RedeemMarkUsed(r)
  \/ \E r \in Reqs : RedeemIncrementStat(r)
  \/ \E r \in Reqs, code \in BuyInputs : BuyStart(r, "u1", code)
  \/ \E r \in Reqs : BuyLookup(r)
  \/ \E r \in Reqs : BuyItem(r)
  \/ \E r \in Reqs : BuyProfile(r)
  \/ \E r \in Reqs : BuyDebit(r)
  \/ \E r \in Reqs : BuyMarkUsed(r)
  \/ \E r \in Reqs : BuyIncrementStat(r)
  \/ \E r \in Reqs, u \in Users, token \in ProcessInputs : ProcessStart(r, u, token)
  \/ \E r \in Reqs : ProcessProfile(r)
  \/ \E r \in Reqs : ProcessUpdate(r)

SpecDebit == InitDebit /\ [][NextDebit]_vars

(***************************************************************************)
(* applyVisitReward: read the balance, write balance + REGISTRATION_REWARD,*)
(* count the visit.  The three registration paths call it after their      *)
(* insert, POST /events/register also for the test code.                   *)
(***************************************************************************)
RegKinds == {"register", "reg_cb", "typed"}

\* what none of the registration paths touches
NotRegister == <<catalog, catalog_purchase_codes, tickets, event_prize_codes,
                 prizeCredited, codes, transactionTokens, events,
                 user_achievements, rewardCoins, unlockReports, issued,
          event_team_stats, teamAwards>>

VisitProfile(r) ==
  /\ req[r].kind \in RegKinds /\ req[r].pc = "visit_profile"
  /\ req' = [ req EXCEPT ![r].pc = "visit_update",
                         ![r].newBalance = profiles[req[r].telegramId] + REGISTRATION_REWARD ]
  /\ UNCHANGED <<profiles, user_stats, registrations, ledger, now, budget, NotRegister>>

VisitUpdate(r) ==
  /\ req[r].kind \in RegKinds /\ req[r].pc = "visit_update"
  /\ \/ /\ profiles' = [ profiles EXCEPT ![req[r].telegramId] = req[r].newBalance ]
        /\ req' = [ req EXCEPT ![r].pc = "visit_stat", ![r].writes = @ \cup {"balance"} ]
     \/ /\ req' = [ req EXCEPT ![r] = Respond(@, "error") ]   \* updateError is thrown
        /\ UNCHANGED profiles
  /\ UNCHANGED <<user_stats, registrations, ledger, now, budget, NotRegister>>

\* incrementUserStat, checkAndUnlockAchievements (returns the empty result),
\* then the caller answers
VisitIncrementStat(r) ==
  /\ req[r].kind \in RegKinds /\ req[r].pc = "visit_stat"
  /\ \/ /\ user_stats' = incrementUserStat(user_stats, req[r].telegramId, "games_visited")
        /\ ledger' = [ ledger EXCEPT ![req[r].telegramId] = @ + REGISTRATION_REWARD ]
        /\ req' = [ req EXCEPT ![r] = Respond([ @ EXCEPT !.writes = @ \cup {"stat"} ], "ok") ]
     \/ /\ req' = [ req EXCEPT ![r] = Respond(@, "error") ]
        /\ UNCHANGED <<user_stats, ledger>>
  /\ UNCHANGED <<profiles, registrations, now, budget, NotRegister>>

\* insert({event_id, telegram_id, status: 'confirmed'}): the table takes the row
InsertRegistration(rows, eventId, telegramId) ==
  [ rows EXCEPT ![<<eventId, telegramId>>] = @ + 1 ]

(***************************************************************************)
(* POST /api/events/register                                               *)
(***************************************************************************)
\* request bodies <<code, team_id>>
RegisterInputs ==
  { <<RC1, "">>, <<RC1, "t1">>, <<RC1, "tX">>, <<RC2, "">>,
    <<REGISTER_TEST_CODE, "">>,
    <<SC1, "">>,                    \* five characters, no event has this code
    <<<<"5", "4">>, "">> }          \* wrong length

\* the branch of the test code left out: '00000' is looked up like any code
RegisterStart_NoTestCode(r, u, code, team_id) ==
  /\ Admit(r)
  /\ LET normalizedCode == toUpperCase(code)
         q == [ Fresh(u) EXCEPT !.kind = "register",
                               !.code = normalizedCode, !.team_id = team_id ]
     IN req' = [ req EXCEPT ![r] =
                   IF Len(code) # 5 THEN Respond(q, "bad_format")
                   ELSE [ q EXCEPT !.pc = "event" ] ]
  /\ UNCHANGED <<profiles, user_stats, registrations, ledger, now, NotRegister>>

RegisterStart(r, u, code, team_id) ==
  /\ Admit(r)
  /\ LET normalizedCode == toUpperCase(code)
         q == [ Fresh(u) EXCEPT !.kind = "register",
                               !.code = normalizedCode, !.team_id = team_id ]
     IN req' = [ req EXCEPT ![r] =
                   IF Len(code) # 5 THEN Respond(q, "bad_format")
                   ELSE IF normalizedCode = REGISTER_TEST_CODE
                     THEN [ q EXCEPT !.pc = "visit_profile" ]
                   ELSE [ q EXCEPT !.pc = "event" ] ]
  /\ UNCHANGED <<profiles, user_stats, registrations, ledger, now, NotRegister>>

\* select id, title, code from events where code = normalizedCode, single()
RegisterEvent(r) ==
  /\ req[r].kind = "register" /\ req[r].pc = "event"
  /\ LET found == { e \in DOMAIN events : events[e].code = req[r].code } IN
       req' = [ req EXCEPT ![r] =
         IF Cardinality(found) # 1 THEN Respond(@, "event_not_found")
         ELSE [ @ EXCEPT !.pc = "existing", !.eventId = CHOOSE e \in found : TRUE ] ]
  /\ UNCHANGED <<profiles, user_stats, registrations, ledger, now, budget, NotRegister>>

\* the lookup of the existing registration left out: every request goes on
RegisterExisting_IgnoresExisting(r) ==
  /\ req[r].kind = "register" /\ req[r].pc = "existing"
  /\ req' = [ req EXCEPT ![r].pc = IF req[r].team_id # "" THEN "team" ELSE "insert" ]
  /\ UNCHANGED <<profiles, user_stats, registrations, ledger, now, budget, NotRegister>>

\* select id from registrations where event_id, telegram_id, single():
\* data only when exactly one row matches
RegisterExisting(r) ==
  /\ req[r].kind = "register" /\ req[r].pc = "existing"
  /\ req' = [ req EXCEPT ![r] =
       IF registrations[<<req[r].eventId, req[r].telegramId>>] = 1
         THEN Respond(@, "already_registered")
       ELSE [ @ EXCEPT !.pc = IF req[r].team_id # "" THEN "team" ELSE "insert" ] ]
  /\ UNCHANGED <<profiles, user_stats, registrations, ledger, now, budget, NotRegister>>

\* select id from event_teams where id = team_id and event_id = event.id
RegisterTeam(r) ==
  /\ req[r].kind = "register" /\ req[r].pc = "team"
  /\ req' = [ req EXCEPT ![r] =
       IF <<req[r].team_id, req[r].eventId>> \notin event_teams
         THEN Respond(@, "team_not_found")
       ELSE [ @ EXCEPT !.pc = "insert" ] ]
  /\ UNCHANGED <<profiles, user_stats, registrations, ledger, now, budget, NotRegister>>

RegisterInsert(r) ==
  /\ req[r].kind = "register" /\ req[r].pc = "insert"
  /\ \/ /\ registrations' = InsertRegistration(registrations, req[r].eventId, req[r].telegramId)
        /\ req' = [ req EXCEPT ![r].pc = "visit_profile",
                               ![r].writes = @ \cup {"registration"} ]
     \/ /\ req' = [ req EXCEPT ![r] = Respond(@, "error") ]   \* registrationError is thrown
        /\ UNCHANGED registrations
  /\ UNCHANGED <<profiles, user_stats, ledger, now, budget, NotRegister>>

(***************************************************************************)
(* The bot's callback reg_<eventId>                                        *)
(***************************************************************************)
RegCbInputs == Events \cup {"eX"}

RegCbStart(r, u, eventId) ==
  /\ Admit(r)
  /\ req' = [ req EXCEPT ![r] =
       [ IdleReq EXCEPT !.kind = "reg_cb", !.telegramId = u, !.pc = "event",
                        !.target = eventId ] ]
  /\ UNCHANGED <<profiles, user_stats, registrations, ledger, now, NotRegister>>

\* select id, title from events where id = eventId, single()
RegCbEvent(r) ==
  /\ req[r].kind = "reg_cb" /\ req[r].pc = "event"
  /\ req' = [ req EXCEPT ![r] =
       IF req[r].target \notin DOMAIN events THEN Respond(@, "event_not_found")
       ELSE [ @ EXCEPT !.pc = "existing", !.eventId = req[r].target ] ]
  /\ UNCHANGED <<profiles, user_stats, registrations, ledger, now, budget, NotRegister>>

\* select id from registrations where event_id, telegram_id, maybeSingle():
\* data only when exactly one row matches
RegCbExisting(r) ==
  /\ req[r].kind = "reg_cb" /\ req[r].pc = "existing"
  /\ req' = [ req EXCEPT ![r] =
       IF registrations[<<req[r].eventId, req[r].telegramId>>] = 1
         THEN Respond(@, "already_registered")
       ELSE [ @ EXCEPT !.pc = "insert" ] ]
  /\ UNCHANGED <<profiles, user_stats, registrations, ledger, now, budget, NotRegister>>

RegCbInsert(r) ==
  /\ req[r].kind = "reg_cb" /\ req[r].pc = "insert"
  /\ \/ /\ registrations' = InsertRegistration(registrations, req[r].eventId, req[r].telegramId)
        /\ req' = [ req EXCEPT ![r].pc = "visit_profile",
                               ![r].writes = @ \cup {"registration"} ]
     \/ /\ req' = [ req EXCEPT ![r] = Respond(@, "error") ]   \* insertError
        /\ UNCHANGED registrations
  /\ UNCHANGED <<profiles, user_stats, ledger, now, budget, NotRegister>>

(***************************************************************************)
(* The bot's private message of five digits: registration by typed code    *)
(***************************************************************************)
TypedInputs == { RC1, RC2, SC1, <<"1", "2", "3">>, <<"A", "B", "1", "2", "3">> }

TypedStart(r, u, text) ==
  /\ Admit(r)
  /\ LET q == [ IdleReq EXCEPT !.kind = "typed", !.telegramId = u, !.code = text ] IN
       req' = [ req EXCEPT ![r] =
         IF Len(text) = 5 /\ IsDigits(text) THEN [ q EXCEPT !.pc = "code" ]
         ELSE Respond(q, "not_a_code") ]
  /\ UNCHANGED <<profiles, user_stats, registrations, ledger, now, NotRegister>>

\* select event_id from codes where code and type = 'registration'; without
\* such a row the text is tried as a purchase code, which writes nothing
TypedCode(r) ==
  /\ req[r].kind = "typed" /\ req[r].pc = "code"
  /\ LET code == req[r].code IN
       req' = [ req EXCEPT ![r] =
         IF /\ code \in DOMAIN codes /\ codes[code].type = "registration"
            /\ codes[code].event_id # "none"
           THEN [ @ EXCEPT !.pc = "event", !.target = codes[code].event_id ]
         ELSE Respond(@, "purchase_path") ]
  /\ UNCHANGED <<profiles, user_stats, registrations, ledger, now, budget, NotRegister>>

\* select id, title, event_date from events where id = codeRow.event_id; isPast
TypedEvent(r) ==
  /\ req[r].kind = "typed" /\ req[r].pc = "event"
  /\ req' = [ req EXCEPT ![r] =
       IF req[r].target \notin DOMAIN events THEN Respond(@, "purchase_path")
       ELSE IF events[req[r].target].event_date < getStartOfTodayMoscow(now)
         THEN Respond(@, "event_past")
       ELSE [ @ EXCEPT !.pc = "existing", !.eventId = req[r].target ] ]
  /\ UNCHANGED <<profiles, user_stats, registrations, ledger, now, budget, NotRegister>>

TypedExisting(r) ==
  /\ req[r].kind = "typed" /\ req[r].pc = "existing"
  /\ req' = [ req EXCEPT ![r] =
       IF registrations[<<req[r].eventId, req[r].telegramId>>] = 1
         THEN Respond(@, "already_registered")
       ELSE [ @ EXCEPT !.pc = "insert" ] ]
  /\ UNCHANGED <<profiles, user_stats, registrations, ledger, now, budget, NotRegister>>

TypedInsert(r) ==
  /\ req[r].kind = "typed" /\ req[r].pc = "insert"
  /\ \/ /\ registrations' = InsertRegistration(registrations, req[r].eventId, req[r].telegramId)
        /\ req' = [ req EXCEPT ![r].pc = "visit_profile",
                               ![r].writes = @ \cup {"registration"} ]
     \/ /\ req' = [ req EXCEPT ![r] = Respond(@, "error") ]   \* insertErr
        /\ UNCHANGED registrations
  /\ UNCHANGED <<profiles, user_stats, ledger, now, budget, NotRegister>>

(***************************************************************************)
(* Specification of the registrations: the three paths, overlapping.       *)
(***************************************************************************)
InitRegister ==
  /\ catalog = Items
  /\ profiles = [ u \in Users |-> 0 ]
  /\ catalog_purchase_codes = InitPurchaseCodes
  /\ tickets = {}
  /\ user_stats = InitStats
  /\ event_prize_codes = InitPrizeCodes
  /\ prizeCredited = [ c \in PrizeCodes |-> 0 ]
  /\ codes = InitCodes
  /\ transactionTokens = << >>
  /\ events = InitEvents
  /\ registrations = [ k \in Events \X Users |-> 0 ]
  /\ ledger = profiles
  /\ user_achievements = InitAchievements
  /\ rewardCoins = [ u \in Users |-> [ k \in RewardKeys |-> 0 ] ]
  /\ unlockReports = [ k \in Users \X Slugs |-> 0 ]
  /\ now = 1
  /\ budget = MaxMixedStarts
  /\ issued = NoIssued
  /\ event_team_stats = NoTeamStats
  /\ teamAwards = NoTeamAwards
  /\ req = [ r \in Reqs |-> IdleReq ]

NextRegister ==
  \/ \E r \in Reqs, u \in Users, in \in RegisterInputs : RegisterStart(r, u, in[1], in[2])
  \/ \E r \in Reqs : RegisterEvent(r)
  \/ \E r \in Reqs : RegisterExisting(r)
  \/ \E r \in Reqs : RegisterTeam(r)
  \/ \E r \in Reqs : RegisterInsert(r)
  \/ \E r \in Reqs, u \in Users, eventId \in RegCbInputs : RegCbStart(r, u, eventId)
  \/ \E r \in Reqs : RegCbEvent(r)
  \/ \E r \in Reqs : RegCbExisting(r)
  \/ \E r \in Reqs : RegCbInsert(r)
  \/ \E r \in Reqs, u \in Users, text \in TypedInputs : TypedStart(r, u, text)
  \/ \E r \in Reqs : TypedCode(r)
  \/ \E r \in Reqs : TypedEvent(r)
  \/ \E r \in Reqs : TypedExisting(r)
  \/ \E r \in Reqs : TypedInsert(r)
  \/ \E r \in Reqs : VisitProfile(r)
  \/ \E r \in Reqs : VisitUpdate(r)
  \/ \E r \in Reqs : VisitIncrementStat(r)

SpecRegister == InitRegister /\ [][NextRegister]_vars

(***************************************************************************)
(* Specification of the credits and debits of the balances: visit rewards  *)
(* (registrations and the test code), bingo claims and direct purchases.   *)
(***************************************************************************)
InitCredit ==
  /\ catalog = Items
  /\ profiles = [ u \in Users |-> MaxBalance ]
  /\ catalog_purchase_codes = InitPurchaseCodes
  /\ tickets = {}
  /\ user_stats = InitStats
  /\ event_prize_codes = InitPrizeCodes
  /\ prizeCredited = [ c \in PrizeCodes |-> 0 ]
  /\ codes = InitCodes
  /\ transactionTokens = << >>
  /\ events = InitEvents
  /\ registrations = [ k \in Events \X Users |-> 0 ]
  /\ ledger = profiles
  /\ user_achievements = InitAchievements
  /\ rewardCoins = [ u \in Users |-> [ k \in RewardKeys |-> 0 ] ]
  /\ unlockReports = [ k \in Users \X Slugs |-> 0 ]
  /\ now = 1
  /\ budget = MaxMixedStarts
  /\ issued = NoIssued
  /\ event_team_stats = NoTeamStats
  /\ teamAwards = NoTeamAwards
  /\ req = [ r \in Reqs |-> IdleReq ]

NextCredit ==
  \/ \E r \in Reqs, u \in Users, in \in RegisterInputs : RegisterStart(r, u, in[1], in[2])
  \/ \E r \in Reqs : RegisterEvent(r)
  \/ \E r \in Reqs : RegisterExisting(r)
  \/ \E r \in Reqs : RegisterTeam(r)
  \/ \E r \in Reqs : RegisterInsert(r)
  \/ \E r \in Reqs : VisitProfile(r)
  \/ \E r \in Reqs : VisitUpdate(r)
  \/ \E r \in Reqs : VisitIncrementStat(r)
  \/ \E r \in Reqs, u \in Users, code \in ClaimInputs : ClaimStart(r, u, code)
  \/ \E r \in Reqs : ClaimLookup(r)
  \/ \E r \in Reqs : ClaimMarkUsed(r)
  \/ \E r \in Reqs : ClaimProfile(r)
  \/ \E r \in Reqs : ClaimCredit(r)
  \/ \E r \in Reqs : ClaimIncrementStat(r)
  \/ \E r \in Reqs, u \in Users, id \in PurchaseInputs : PurchaseStart(r, u, id)
  \/ \E r \in Reqs : PurchaseItem(r)
  \/ \E r \in Reqs : PurchaseProfile(r)
  \/ \E r \in Reqs : PurchaseDebit(r)
  \/ \E r \in Reqs : PurchaseTicketInsert(r)
  \/ \E r \in Reqs : PurchaseIncrementStat(r)

SpecCredit == InitCredit /\ [][NextCredit]_vars

(***************************************************************************)
(* Claims about the purchase-code redemption.                              *)
(***************************************************************************)
RedeemOf(r, c) == req[r].kind = "redeem" /\ req[r].code = c /\ c \in PurchaseCodes

\* C1: of two redeem requests that both arrived while the purchase code was
\* unused, at most one returns success; the other one, unless it ended in a
\* persistence error, returns 'code already used' or another refusal and has
\* debited nothing.
C1_ExactlyOneRedeemSucceeds ==
  \A r1, r2 \in Reqs : \A c \in PurchaseCodes :
    ( /\ r1 # r2
      /\ RedeemOf(r1, c) /\ RedeemOf(r2, c)
      /\ ~req[r1].usedAtStart /\ ~req[r2].usedAtStart
      /\ req[r1].result = "ok"
      /\ req[r2].pc = "done" /\ req[r2].result # "error" )
    => /\ req[r2].result # "ok"
       /\ "balance" \notin req[r2].writes

\* C2: a successful redemption leaves the code used, and a redeem request
\* that arrives when its code is used writes nothing (balance, tickets,
\* tickets_purchased, code) and is answered 'code already used'.
C2_SecondRedeemRejected ==
  \A r \in Reqs : \A c \in PurchaseCodes :
    RedeemOf(r, c) =>
      /\ req[r].result = "ok" => IsUsed(c)
      /\ req[r].usedAtStart =>
           /\ req[r].writes = {}
           /\ req[r].pc = "done" => req[r].result = "already_used"

C2_Witness ==
  \E r1, r2 \in Reqs :
    /\ r1 # r2
    /\ RedeemOf(r1, PC1) /\ req[r1].result = "ok"
    /\ RedeemOf(r2, PC1) /\ req[r2].usedAtStart
    /\ req[r2].result = "already_used"
    /\ req[r2].telegramId = req[r1].telegramId

\* C3: a used purchase code or prize code never changes again: used_at stays
\* non-null and used_at and the redeemer written first are never overwritten.
C3_UsedIsTerminal ==
  [][ /\ \A c \in PurchaseCodes :
           catalog_purchase_codes[c].used_at # NULL
             => catalog_purchase_codes'[c] = catalog_purchase_codes[c]
      /\ \A c \in PrizeCodes :
           event_prize_codes[c].used_at # NULL
             => event_prize_codes'[c] = event_prize_codes[c] ]_vars

\* C4: a finished redeem request has debited the balance if and only if it
\* has marked the code used.
C4_RedeemAllOrNothing ==
  \A r \in Reqs :
    (req[r].kind = "redeem" /\ req[r].pc = "done")
      => ("balance" \in req[r].writes <=> "code" \in req[r].writes)

\* C9: when the catalog row of the code's item is missing at the item lookup,
\* the request is answered 'target not found' by a step that changes no table,
\* and a request answered so has written nothing (the code stays unused by it).
C9_MissingItemRefused ==
  /\ [][ \A r \in Reqs :
           ( /\ req[r].kind = "redeem" /\ req[r].pc = "item"
             /\ req'[r] # req[r]
             /\ req[r].itemId \notin catalog )
           => /\ req'[r].result = "target_not_found"
              /\ UNCHANGED tables ]_vars
  /\ [](\A r \in Reqs :
          (req[r].kind = "redeem" /\ req[r].result = "target_not_found")
            => req[r].writes = {})

\* the code was refused for its missing item and was redeemed by a request
\* that arrived after that refusal
C9_Witness ==
  \E r \in Reqs :
    /\ RedeemOf(r, PC1)
    /\ req[r].afterRefusal = "target_not_found"
    /\ req[r].result = "ok"
    /\ catalog_purchase_codes[PC1].used_at # NULL

(***************************************************************************)
(* Claims about the bingo prize codes.                                     *)
(***************************************************************************)
\* C5: at most one claim of a prize code succeeds, and the coins added to
\* all balances for one prize code never exceed its coins_amount.
C5_NoDoubleCredit ==
  /\ \A c \in PrizeCodes : prizeCredited[c] <= event_prize_codes[c].coins_amount
  /\ \A r1, r2 \in Reqs :
       ( /\ r1 # r2
         /\ req[r1].kind = "claim" /\ req[r2].kind = "claim"
         /\ req[r1].code \in PrizeCodes /\ req[r2].code = req[r1].code
         /\ req[r1].result = "ok" )
       => req[r2].result # "ok"

(***************************************************************************)
(* Claims about the balances.                                              *)
(***************************************************************************)
DebitKinds == {"purchase", "redeem", "buy", "process"}

\* the balance a debit request compares with its amount
BalanceRead(r) ==
  profiles[IF req[r].kind = "process" THEN req[r].target ELSE req[r].telegramId]

\* C6: under every interleaving of direct purchases, purchase-code
\* redemptions, purchase confirmations in the bot and token transactions, no
\* stored balance is negative and no request is about to write a negative
\* balance; a debit larger than the balance read is answered 'insufficient'
\* in that step, which leaves every table as it is, and a request answered
\* 'insufficient' has written nothing.
C6_BalanceNeverNegative ==
  /\ [](\A u \in Users : profiles[u] >= 0)
  /\ [](\A r \in Reqs :
          /\ (req[r].kind \in DebitKinds /\ req[r].pc \in {"debit", "update"})
               => req[r].newBalance >= 0
          /\ req[r].result = "insufficient" => req[r].writes = {})
  /\ [][ \A r \in Reqs :
           ( /\ req[r].kind \in DebitKinds /\ req[r].pc = "profile"
             /\ req[r].type # "add"
             /\ req'[r] # req[r]
             /\ BalanceRead(r) < req[r].price )
           => /\ req'[r].pc = "done" /\ req'[r].result = "insufficient"
              /\ UNCHANGED tables ]_vars

\* a token transaction has subtracted from the balance of u1 and a direct
\* purchase by u1 was then refused for what is left
C6_Witness ==
  \E r1, r2 \in Reqs :
    /\ r1 # r2
    /\ req[r1].kind = "process" /\ req[r1].result = "ok"
    /\ "balance" \in req[r1].writes
    /\ profiles["u1"] = MaxBalance - 40
    /\ req[r2].kind = "purchase" /\ req[r2].telegramId = "u1"
    /\ req[r2].result = "insufficient"

\* C8: when the balance read is below the price, the direct purchase and the
\* redemption answer 'insufficient' in that step and leave every table as it
\* is (the purchase code stays unused); a request answered 'insufficient'
\* has written nothing.
C8_InsufficientChangesNothing ==
  /\ [][ \A r \in Reqs :
           ( /\ req[r].kind \in {"purchase", "redeem"} /\ req[r].pc = "profile"
             /\ req'[r] # req[r]
             /\ profiles[req[r].telegramId] < req[r].price )
           => /\ req'[r].pc = "done" /\ req'[r].result = "insufficient"
              /\ UNCHANGED tables ]_vars
  /\ [](\A r \in Reqs :
          (req[r].kind \in {"purchase", "redeem"} /\ req[r].result = "insufficient")
            => req[r].writes = {})

\* a redemption answered after the same code was refused for an insufficient
\* balance succeeds
C8_Witness ==
  \E r \in Reqs : \E c \in PurchaseCodes :
    /\ RedeemOf(r, c) /\ req[r].afterRefusal = "insufficient"
    /\ req[r].result = "ok" /\ IsUsed(c)

\* C7: once the requests (visit rewards, bingo claims, direct purchases,
\* overlapping or not) are all answered with success, each stored balance is
\* the initial balance plus the credits minus the debits of the requests
\* answered with success: no amount is lost and none is applied twice.
C7_BalanceMatchesLedger ==
  (\A r \in Reqs : req[r].pc = "done" /\ req[r].result = "ok")
    => \A u \in Users : profiles[u] = ledger[u]

(***************************************************************************)
(* Claims about the registrations.                                         *)
(***************************************************************************)
\* C10: there is at most one registration row per event and user, whichever
\* of the three paths (POST /events/register, the callback reg_, the typed
\* code) the requests take and however they overlap.
C10_OneRegistrationPerEventAndUser ==
  \A e \in Events : \A u \in Users : registrations[<<e, u>>] <= 1

(***************************************************************************)
(* The repeating visit reward: POST /achievements/claim-visit-reward, the  *)
(* bot's callback claim_visit and the report of GET /achievements.         *)
(* Promise.all sends the two updates together: they reach the database in  *)
(* either order, each succeeds or fails on its own, and the handler goes   *)
(* on when both have settled.                                              *)
(***************************************************************************)
\* no request is in flight
NoneInFlight == \A q \in Reqs : req[q].pc \in {"idle", "done"}

NotReward == <<catalog, catalog_purchase_codes, tickets, event_prize_codes,
               prizeCredited, codes, transactionTokens, events, registrations, issued,
          event_team_stats, teamAwards>>

\* GET /achievements: visitRewardPending
visitRewardPending(stats) ==
  LET every == VISIT_REWARD_EVERY
      gamesVisited == stats.games_visited
      visitRewardsClaimed == stats.visit_rewards_claimed
      visitRewardProgress == gamesVisited - visitRewardsClaimed * every
  IN visitRewardProgress >= every

GetAchievementsStart(r, u) ==
  /\ Admit(r)
  /\ req' = [ req EXCEPT ![r] =
       [ Fresh(u) EXCEPT !.kind = "get_achievements", !.pc = "stats" ] ]
  /\ UNCHANGED <<profiles, user_stats, user_achievements, rewardCoins, ledger,
                 unlockReports, now, NotReward>>

\* GET /achievements reads user_stats and answers
GetAchievementsStats(r) ==
  /\ req[r].kind = "get_achievements" /\ req[r].pc = "stats"
  /\ req' = [ req EXCEPT ![r] =
       Respond(@, IF visitRewardPending(user_stats[req[r].telegramId])
                    THEN "pending" ELSE "not_pending") ]
  /\ UNCHANGED <<profiles, user_stats, user_achievements, rewardCoins, ledger,
                 unlockReports, now, budget, NotReward>>

\* one update of a Promise.all pair has settled: applied or failed; when it
\* is the last of the pair the handler answers, with an error only where it
\* looks at the results (checked)
Settled(q, name, applied, checked) ==
  LET q1 == [ q EXCEPT !.pending = @ \ {name},
                       !.failed = @ \/ ~applied,
                       !.writes = IF applied THEN @ \cup {name} ELSE @ ]
  IN IF q1.pending # {} THEN q1
     ELSE Respond(q1, IF checked /\ q1.failed THEN "error" ELSE "ok")

ClaimVisitRewardStart(r, u) ==
  /\ Admit(r)
  /\ req' = [ req EXCEPT ![r] =
       [ Fresh(u) EXCEPT !.kind = "claim_visit_reward", !.pc = "stats" ] ]
  /\ UNCHANGED <<profiles, user_stats, user_achievements, rewardCoins, ledger, unlockReports, now, NotReward>>

\* the progress check off by one: a progress equal to the interval is refused
ClaimVisitRewardStats_RefusesAtInterval(r) ==
  /\ req[r].kind = "claim_visit_reward" /\ req[r].pc = "stats"
  /\ LET stats == user_stats[req[r].telegramId]
         every == VISIT_REWARD_EVERY
         visitRewardProgress == stats.games_visited - stats.visit_rewards_claimed * every
     IN req' = [ req EXCEPT ![r] =
          IF visitRewardProgress <= every THEN Respond(@, "no_reward")
          ELSE [ @ EXCEPT !.pc = "profile", !.stats = stats ] ]
  /\ UNCHANGED <<profiles, user_stats, user_achievements, rewardCoins, ledger,
                 budget, unlockReports, now, NotReward>>

\* select games_visited, visit_rewards_claimed; the progress check
ClaimVisitRewardStats(r) ==
  /\ req[r].kind = "claim_visit_reward" /\ req[r].pc = "stats"
  /\ LET stats == user_stats[req[r].telegramId]
         every == VISIT_REWARD_EVERY
         visitRewardProgress == stats.games_visited - stats.visit_rewards_claimed * every
     IN req' = [ req EXCEPT ![r] =
          IF visitRewardProgress < every THEN Respond(@, "no_reward")
          ELSE [ @ EXCEPT !.pc = "profile", !.stats = stats ] ]
  /\ UNCHANGED <<profiles, user_stats, user_achievements, rewardCoins, ledger,
                 budget, unlockReports, now, NotReward>>

ClaimVisitRewardProfile(r) ==
  /\ req[r].kind = "claim_visit_reward" /\ req[r].pc = "profile"
  /\ req' = [ req EXCEPT ![r].pc = "updates",
                         ![r].newBalance = profiles[req[r].telegramId] + VISIT_REWARD_COINS,
                         ![r].coinsToAdd = VISIT_REWARD_COINS,
                         ![r].pending = {"balance", "stat"} ]
  /\ UNCHANGED <<profiles, user_stats, user_achievements, rewardCoins, ledger,
                 budget, unlockReports, now, NotReward>>

\* profiles.update({balance: newBalance})
ClaimVisitRewardBalance(r) ==
  /\ req[r].kind = "claim_visit_reward" /\ req[r].pc = "updates"
  /\ "balance" \in req[r].pending
  /\ LET u == req[r].telegramId IN
       \E applied \in BOOLEAN :
         /\ profiles' = IF applied THEN [ profiles EXCEPT ![u] = req[r].newBalance ]
                        ELSE profiles
         /\ rewardCoins' = IF applied
                             THEN [ rewardCoins EXCEPT ![u]["visit"] =
                                      @ + req[r].newBalance - profiles[u] ]
                           ELSE rewardCoins
         /\ req' = [ req EXCEPT ![r] = Settled(@, "balance", applied, TRUE) ]
         /\ ledger' = IF req'[r].result = "ok"
                        THEN [ ledger EXCEPT ![u] = @ + req[r].coinsToAdd ]
                      ELSE ledger
  /\ UNCHANGED <<user_stats, user_achievements, budget, unlockReports, now, NotReward>>

\* user_stats.update({visit_rewards_claimed: visitRewardsClaimed + 1})
ClaimVisitRewardMark(r) ==
  /\ req[r].kind = "claim_visit_reward" /\ req[r].pc = "updates"
  /\ "stat" \in req[r].pending
  /\ LET u == req[r].telegramId
         visitRewardsClaimed == req[r].stats.visit_rewards_claimed
     IN \E applied \in BOOLEAN :
          /\ user_stats' = IF applied
                             THEN [ user_stats EXCEPT ![u].visit_rewards_claimed =
                                      visitRewardsClaimed + 1 ]
                           ELSE user_stats
          /\ req' = [ req EXCEPT ![r] = Settled(@, "stat", applied, TRUE) ]
          /\ ledger' = IF req'[r].result = "ok"
                         THEN [ ledger EXCEPT ![u] = @ + req[r].coinsToAdd ]
                       ELSE ledger
  /\ UNCHANGED <<profiles, user_achievements, rewardCoins, budget, unlockReports, now, NotReward>>

(***************************************************************************)
(* The bot's callback claim_visit: the same steps; the results of the two  *)
(* updates are not looked at.                                              *)
(***************************************************************************)
BotClaimVisitStart(r, u) ==
  /\ Admit(r)
  /\ req' = [ req EXCEPT ![r] =
       [ Fresh(u) EXCEPT !.kind = "claim_visit", !.pc = "stats" ] ]
  /\ UNCHANGED <<profiles, user_stats, user_achievements, rewardCoins, ledger, unlockReports, now, NotReward>>

BotClaimVisitStats(r) ==
  /\ req[r].kind = "claim_visit" /\ req[r].pc = "stats"
  /\ LET stats == user_stats[req[r].telegramId]
         every == VISIT_REWARD_EVERY
         progress == stats.games_visited - stats.visit_rewards_claimed * every
     IN req' = [ req EXCEPT ![r] =
          IF progress < every THEN Respond(@, "no_reward")
          ELSE [ @ EXCEPT !.pc = "profile", !.stats = stats ] ]
  /\ UNCHANGED <<profiles, user_stats, user_achievements, rewardCoins, ledger,
                 budget, unlockReports, now, NotReward>>

BotClaimVisitProfile(r) ==
  /\ req[r].kind = "claim_visit" /\ req[r].pc = "profile"
  /\ req' = [ req EXCEPT ![r].pc = "updates",
                         ![r].newBalance = profiles[req[r].telegramId] + VISIT_REWARD_COINS,
                         ![r].coinsToAdd = VISIT_REWARD_COINS,
                         ![r].pending = {"balance", "stat"} ]
  /\ UNCHANGED <<profiles, user_stats, user_achievements, rewardCoins, ledger,
                 budget, unlockReports, now, NotReward>>

BotClaimVisitBalance(r) ==
  /\ req[r].kind = "claim_visit" /\ req[r].pc = "updates"
  /\ "balance" \in req[r].pending
  /\ LET u == req[r].telegramId IN
       \E applied \in BOOLEAN :
         /\ profiles' = IF applied THEN [ profiles EXCEPT ![u] = req[r].newBalance ]
                        ELSE profiles
         /\ rewardCoins' = IF applied
                             THEN [ rewardCoins EXCEPT ![u]["visit"] =
                                      @ + req[r].newBalance - profiles[u] ]
                           ELSE rewardCoins
         /\ req' = [ req EXCEPT ![r] = Settled(@, "balance", applied, FALSE) ]
         /\ ledger' = IF req'[r].result = "ok"
                        THEN [ ledger EXCEPT ![u] = @ + req[r].coinsToAdd ]
                      ELSE ledger
  /\ UNCHANGED <<user_stats, user_achievements, budget, unlockReports, now, NotReward>>

BotClaimVisitMark(r) ==
  /\ req[r].kind = "claim_visit" /\ req[r].pc = "updates"
  /\ "stat" \in req[r].pending
  /\ LET u == req[r].telegramId
         visitRewardsClaimed == req[r].stats.visit_rewards_claimed
     IN \E applied \in BOOLEAN :
          /\ user_stats' = IF applied
                             THEN [ user_stats EXCEPT ![u].visit_rewards_claimed =
                                      visitRewardsClaimed + 1 ]
                           ELSE user_stats
          /\ req' = [ req EXCEPT ![r] = Settled(@, "stat", applied, FALSE) ]
          /\ ledger' = IF req'[r].result = "ok"
                         THEN [ ledger EXCEPT ![u] = @ + req[r].coinsToAdd ]
                       ELSE ledger
  /\ UNCHANGED <<profiles, user_achievements, rewardCoins, budget, unlockReports, now, NotReward>>

\* the visits and claimed rewards a user can have arrived at
VisitHistories == { <<0, 0>>, <<4, 0>>, <<5, 0>>, <<9, 1>>, <<12, 0>> }

InitVisitSeq ==
  /\ catalog = Items
  /\ profiles = [ u \in Users |-> 0 ]
  /\ catalog_purchase_codes = InitPurchaseCodes
  /\ tickets = {}
  /\ \E h \in VisitHistories : user_stats = [ u \in Users |-> StatsRow(h[1], h[2], 0) ]
  /\ event_prize_codes = InitPrizeCodes
  /\ prizeCredited = [ c \in PrizeCodes |-> 0 ]
  /\ codes = InitCodes
  /\ transactionTokens = << >>
  /\ events = InitEvents
  /\ registrations = [ k \in Events \X Users |-> 0 ]
  /\ ledger = profiles
  /\ user_achievements = InitAchievements
  /\ rewardCoins = [ u \in Users |-> [ k \in RewardKeys |-> 0 ] ]
  /\ unlockReports = [ k \in Users \X Slugs |-> 0 ]
  /\ now = 1
  /\ budget = MaxVisitStarts
  /\ issued = NoIssued
  /\ event_team_stats = NoTeamStats
  /\ teamAwards = NoTeamAwards
  /\ req = [ r \in Reqs |-> IdleReq ]

NextVisitSeq ==
  \/ /\ NoneInFlight
     /\ \E r \in Reqs, u \in Users : ClaimVisitRewardStart(r, u)
  \/ \E r \in Reqs : ClaimVisitRewardStats(r)
  \/ \E r \in Reqs : ClaimVisitRewardProfile(r)
  \/ \E r \in Reqs : ClaimVisitRewardBalance(r)
  \/ \E r \in Reqs : ClaimVisitRewardMark(r)
  \/ /\ NoneInFlight
     /\ \E r \in Reqs, u \in Users : BotClaimVisitStart(r, u)
  \/ \E r \in Reqs : BotClaimVisitStats(r)
  \/ \E r \in Reqs : BotClaimVisitProfile(r)
  \/ \E r \in Reqs : BotClaimVisitBalance(r)
  \/ \E r \in Reqs : BotClaimVisitMark(r)
  \/ /\ NoneInFlight
     /\ \E r \in Reqs, u \in Users : GetAchievementsStart(r, u)
  \/ \E r \in Reqs : GetAchievementsStats(r)
  \/ /\ NoneInFlight
     /\ \E r \in Reqs, u \in Users : RegisterStart(r, u, REGISTER_TEST_CODE, "")
  \/ \E r \in Reqs : VisitProfile(r)
  \/ \E r \in Reqs : VisitUpdate(r)
  \/ \E r \in Reqs : VisitIncrementStat(r)

SpecVisitSeq == InitVisitSeq /\ [][NextVisitSeq]_vars

(***************************************************************************)
(* checkAndUnlockAchievements, as a call of its own for user u.  The table *)
(* user_achievements holds at most one row per user and slug: an insert of *)
(* a second one is refused with code 23505.                                *)
(***************************************************************************)
\* the unique key of user_achievements on (telegram_id, achievement_slug):
\* an insert of a row that exists is refused with code 23505
AchievementTaken(rows, telegramId, slug) == rows[<<telegramId, slug>>].exists

UnlockStart(r, u) ==
  /\ Admit(r)
  /\ req' = [ req EXCEPT ![r] = [ Fresh(u) EXCEPT !.kind = "unlock", !.pc = "stats" ] ]
  /\ UNCHANGED <<profiles, user_stats, user_achievements, rewardCoins, ledger,
                 unlockReports, now, NotReward>>

\* select games_visited, tickets_purchased, bingo_collected
UnlockStats(r) ==
  /\ req[r].kind = "unlock" /\ req[r].pc = "stats"
  /\ req' = [ req EXCEPT ![r].pc = "loop", ![r].stats = user_stats[req[r].telegramId],
                         ![r].tAttempt = 1 ]
  /\ UNCHANGED <<profiles, user_stats, user_achievements, rewardCoins, ledger,
                 unlockReports, now, budget, NotReward>>

\* the loop goes on to the next entry of ACHIEVEMENTS, or returns after the last
UnlockContinue(q) ==
  IF q.tAttempt = Len(ACHIEVEMENTS) THEN Respond(q, "ok")
  ELSE [ q EXCEPT !.tAttempt = @ + 1 ]

\* code 23505 taken for a success: the duplicate is pushed as newly unlocked
UnlockStep_ReportsDuplicate(r) ==
  /\ req[r].kind = "unlock" /\ req[r].pc = "loop"
  /\ LET u == req[r].telegramId
         ach == ACHIEVEMENTS[req[r].tAttempt]
         value == req[r].stats[ach.statKey]
         key == <<u, ach.slug>>
         pushed == [ req[r] EXCEPT !.newlyUnlocked = @ \cup {ach.slug},
                                   !.totalCoinReward = @ + ach.coinReward ]
     IN IF value < ach.threshold
          THEN /\ req' = [ req EXCEPT ![r] = UnlockContinue(@) ]
               /\ UNCHANGED <<user_achievements, unlockReports>>
        ELSE IF AchievementTaken(user_achievements, u, ach.slug)
          THEN /\ req' = [ req EXCEPT ![r] = UnlockContinue(pushed) ]
               /\ unlockReports' = [ unlockReports EXCEPT ![key] = @ + 1 ]
               /\ UNCHANGED user_achievements
        ELSE \/ /\ user_achievements' = [ user_achievements EXCEPT ![key] = NewAchievementRow ]
                /\ unlockReports' = [ unlockReports EXCEPT ![key] = @ + 1 ]
                /\ req' = [ req EXCEPT ![r] = UnlockContinue(pushed) ]
             \/ /\ req' = [ req EXCEPT ![r] = Respond(@, "error") ]
                /\ UNCHANGED <<user_achievements, unlockReports>>
  /\ UNCHANGED <<profiles, user_stats, rewardCoins, ledger, now, budget, NotReward>>

\* one turn of the loop over ACHIEVEMENTS: threshold, insert, 23505, push
UnlockStep(r) ==
  /\ req[r].kind = "unlock" /\ req[r].pc = "loop"
  /\ LET u == req[r].telegramId
         ach == ACHIEVEMENTS[req[r].tAttempt]
         value == req[r].stats[ach.statKey]
         key == <<u, ach.slug>>
         pushed == [ req[r] EXCEPT !.newlyUnlocked = @ \cup {ach.slug},
                                   !.totalCoinReward = @ + ach.coinReward ]
     IN IF value < ach.threshold
          THEN /\ req' = [ req EXCEPT ![r] = UnlockContinue(@) ]
               /\ UNCHANGED <<user_achievements, unlockReports>>
        ELSE IF AchievementTaken(user_achievements, u, ach.slug)
          THEN /\ req' = [ req EXCEPT ![r] = UnlockContinue(@) ]      \* 23505
               /\ UNCHANGED <<user_achievements, unlockReports>>
        ELSE \/ /\ user_achievements' = [ user_achievements EXCEPT ![key] = NewAchievementRow ]
                /\ unlockReports' = [ unlockReports EXCEPT ![key] = @ + 1 ]
                /\ req' = [ req EXCEPT ![r] = UnlockContinue(pushed) ]
             \/ /\ req' = [ req EXCEPT ![r] = Respond(@, "error") ]   \* another insertError
                /\ UNCHANGED <<user_achievements, unlockReports>>
  /\ UNCHANGED <<profiles, user_stats, rewardCoins, ledger, now, budget, NotReward>>

(***************************************************************************)
(* POST /achievements/claim                                                *)
(***************************************************************************)
\* ACHIEVEMENTS.find((a) => a.slug === achievement_slug): its index, 0 for none
FindAchievement(achievement_slug) ==
  IF \E i \in DOMAIN ACHIEVEMENTS : ACHIEVEMENTS[i].slug = achievement_slug
    THEN CHOOSE i \in DOMAIN ACHIEVEMENTS :
           /\ ACHIEVEMENTS[i].slug = achievement_slug
           /\ \A j \in 1..(i - 1) : ACHIEVEMENTS[j].slug # achievement_slug
  ELSE 0

AchClaimInputs == { "in_rhythm", "buying_for_friends", "first_verse", "unknown", "" }

AchClaimStart(r, u, achievement_slug) ==
  /\ Admit(r)
  /\ LET q == [ Fresh(u) EXCEPT !.kind = "claim_achievement",
                                !.achievement_slug = achievement_slug ]
         i == FindAchievement(achievement_slug)
     IN req' = [ req EXCEPT ![r] =
          IF achievement_slug = "" THEN Respond(q, "bad_request")
          ELSE IF i = 0 \/ ACHIEVEMENTS[i].coinReward <= 0 THEN Respond(q, "no_reward")
          ELSE [ q EXCEPT !.pc = "row", !.coinsToAdd = ACHIEVEMENTS[i].coinReward ] ]
  /\ UNCHANGED <<profiles, user_stats, user_achievements, rewardCoins, ledger,
                 unlockReports, now, NotReward>>

\* a claim that goes on whatever reward_claimed_at holds
AchClaimRow_IgnoresClaimedAt(r) ==
  /\ req[r].kind = "claim_achievement" /\ req[r].pc = "row"
  /\ LET row == user_achievements[<<req[r].telegramId, req[r].achievement_slug>>] IN
       req' = [ req EXCEPT ![r] =
         IF ~row.exists THEN Respond(@, "not_unlocked")
         ELSE [ @ EXCEPT !.pc = "profile" ] ]
  /\ UNCHANGED <<profiles, user_stats, user_achievements, rewardCoins, ledger,
                 unlockReports, now, budget, NotReward>>

\* a claim that goes on whether or not the row exists
AchClaimRow_IgnoresMissingRow(r) ==
  /\ req[r].kind = "claim_achievement" /\ req[r].pc = "row"
  /\ LET row == user_achievements[<<req[r].telegramId, req[r].achievement_slug>>] IN
       req' = [ req EXCEPT ![r] =
         IF row.exists /\ row.reward_claimed_at # NULL THEN Respond(@, "already_claimed")
         ELSE [ @ EXCEPT !.pc = "profile" ] ]
  /\ UNCHANGED <<profiles, user_stats, user_achievements, rewardCoins, ledger,
                 unlockReports, now, budget, NotReward>>

\* select achievement_slug, reward_claimed_at where telegram_id, achievement_slug
AchClaimRow(r) ==
  /\ req[r].kind = "claim_achievement" /\ req[r].pc = "row"
  /\ LET row == user_achievements[<<req[r].telegramId, req[r].achievement_slug>>] IN
       req' = [ req EXCEPT ![r] =
         IF ~row.exists THEN Respond(@, "not_unlocked")
         ELSE IF row.reward_claimed_at # NULL THEN Respond(@, "already_claimed")
         ELSE [ @ EXCEPT !.pc = "profile" ] ]
  /\ UNCHANGED <<profiles, user_stats, user_achievements, rewardCoins, ledger,
                 unlockReports, now, budget, NotReward>>

AchClaimProfile(r) ==
  /\ req[r].kind = "claim_achievement" /\ req[r].pc = "profile"
  /\ LET currentBalance == profiles[req[r].telegramId] IN
       req' = [ req EXCEPT ![r].pc = "updates",
                           ![r].newBalance = currentBalance + req[r].coinsToAdd,
                           ![r].pending = {"balance", "mark"} ]
  /\ UNCHANGED <<profiles, user_stats, user_achievements, rewardCoins, ledger,
                 unlockReports, now, budget, NotReward>>

\* profiles.update({balance: newBalance})
AchClaimBalance(r) ==
  /\ req[r].kind = "claim_achievement" /\ req[r].pc = "updates"
  /\ "balance" \in req[r].pending
  /\ LET u == req[r].telegramId IN
       \E applied \in BOOLEAN :
         /\ profiles' = IF applied THEN [ profiles EXCEPT ![u] = req[r].newBalance ]
                        ELSE profiles
         /\ rewardCoins' = IF applied
                             THEN [ rewardCoins EXCEPT ![u][req[r].achievement_slug] =
                                      @ + req[r].newBalance - profiles[u] ]
                           ELSE rewardCoins
         /\ req' = [ req EXCEPT ![r] = Settled(@, "balance", applied, TRUE) ]
         /\ ledger' = IF req'[r].result = "ok"
                        THEN [ ledger EXCEPT ![u] = @ + req[r].coinsToAdd ]
                      ELSE ledger
  /\ UNCHANGED <<user_stats, user_achievements, unlockReports, now, budget, NotReward>>

\* user_achievements.update({reward_claimed_at}) where telegram_id, achievement_slug
AchClaimMark(r) ==
  /\ req[r].kind = "claim_achievement" /\ req[r].pc = "updates"
  /\ "mark" \in req[r].pending
  /\ LET u == req[r].telegramId
         key == <<u, req[r].achievement_slug>>
     IN \E applied \in BOOLEAN :
          /\ user_achievements' =
               IF applied /\ user_achievements[key].exists
                 THEN [ user_achievements EXCEPT ![key].reward_claimed_at = now ]
               ELSE user_achievements
          /\ now' = IF applied THEN now + 1 ELSE now
          /\ req' = [ req EXCEPT ![r] = Settled(@, "mark", applied, TRUE) ]
          /\ ledger' = IF req'[r].result = "ok"
                         THEN [ ledger EXCEPT ![u] = @ + req[r].coinsToAdd ]
                       ELSE ledger
  /\ UNCHANGED <<profiles, user_stats, rewardCoins, unlockReports, budget, NotReward>>

(***************************************************************************)
(* The rewards of the purchase thresholds:                                 *)
(* POST /achievements/claim-purchase-rewards grants every threshold that   *)
(* is reached and not claimed, the bot's callback claim_p_<n> grants one.  *)
(* Both answer 'no reward' when an update fails.                           *)
(***************************************************************************)
\* totalCoins of the thresholds in toClaim
TotalCoins(toClaim) ==
  (IF 1 \in toClaim THEN PURCHASE_ACHIEVEMENT_REWARDS(1) ELSE 0)
  + (IF 3 \in toClaim THEN PURCHASE_ACHIEVEMENT_REWARDS(3) ELSE 0)
  + (IF 5 \in toClaim THEN PURCHASE_ACHIEVEMENT_REWARDS(5) ELSE 0)

\* user_stats.update(updateStats): the claimed_at markers of toClaim
MarkPurchaseRewards(rows, telegramId, toClaim, claimedAt) ==
  [ rows EXCEPT ![telegramId] =
      [ k \in DOMAIN @ |->
          IF k \in { PurchaseKey(t) : t \in toClaim } THEN claimedAt ELSE @[k] ] ]

\* coinsAdded is 0 when an update failed
Granted(q) == IF q.result = "error" THEN [ q EXCEPT !.result = "no_reward" ] ELSE q

GrantPurchaseStart(r, u) ==
  /\ Admit(r)
  /\ req' = [ req EXCEPT ![r] =
       [ Fresh(u) EXCEPT !.kind = "claim_purchase_rewards", !.pc = "stats" ] ]
  /\ UNCHANGED <<profiles, user_stats, user_achievements, rewardCoins, ledger,
                 unlockReports, now, NotReward>>

\* the markers not looked at: every threshold reached is granted
GrantPurchaseStats_IgnoresMarkers(r) ==
  /\ req[r].kind = "claim_purchase_rewards" /\ req[r].pc = "stats"
  /\ LET stats == user_stats[req[r].telegramId]
         ticketsPurchased == stats.tickets_purchased
         toClaim == { threshold \in PurchaseThresholds : ticketsPurchased >= threshold }
         totalCoins == TotalCoins(toClaim)
     IN req' = [ req EXCEPT ![r] =
          IF totalCoins = 0 THEN Respond(@, "no_reward")
          ELSE [ @ EXCEPT !.pc = "profile", !.toClaim = toClaim, !.coinsToAdd = totalCoins ] ]
  /\ UNCHANGED <<profiles, user_stats, user_achievements, rewardCoins, ledger,
                 unlockReports, now, budget, NotReward>>

\* select tickets_purchased and the three markers; the loop over [1, 3, 5]
GrantPurchaseStats(r) ==
  /\ req[r].kind = "claim_purchase_rewards" /\ req[r].pc = "stats"
  /\ LET stats == user_stats[req[r].telegramId]
         ticketsPurchased == stats.tickets_purchased
         toClaim == { threshold \in PurchaseThresholds :
                        /\ ticketsPurchased >= threshold
                        /\ stats[PurchaseKey(threshold)] = NULL }
         totalCoins == TotalCoins(toClaim)
     IN req' = [ req EXCEPT ![r] =
          IF totalCoins = 0 THEN Respond(@, "no_reward")
          ELSE [ @ EXCEPT !.pc = "profile", !.toClaim = toClaim, !.coinsToAdd = totalCoins ] ]
  /\ UNCHANGED <<profiles, user_stats, user_achievements, rewardCoins, ledger,
                 unlockReports, now, budget, NotReward>>

GrantPurchaseProfile(r) ==
  /\ req[r].kind = "claim_purchase_rewards" /\ req[r].pc = "profile"
  /\ req' = [ req EXCEPT ![r].pc = "updates",
                         ![r].newBalance = profiles[req[r].telegramId] + req[r].coinsToAdd,
                         ![r].pending = {"balance", "mark"} ]
  /\ UNCHANGED <<profiles, user_stats, user_achievements, rewardCoins, ledger,
                 unlockReports, now, budget, NotReward>>

GrantPurchaseBalance(r) ==
  /\ req[r].kind = "claim_purchase_rewards" /\ req[r].pc = "updates"
  /\ "balance" \in req[r].pending
  /\ LET u == req[r].telegramId IN
       \E applied \in BOOLEAN :
         /\ profiles' = IF applied THEN [ profiles EXCEPT ![u] = req[r].newBalance ]
                        ELSE profiles
         /\ rewardCoins' = IF applied
                             THEN [ rewardCoins EXCEPT ![u]["purchase"] =
                                      @ + req[r].newBalance - profiles[u] ]
                           ELSE rewardCoins
         /\ req' = [ req EXCEPT ![r] = Granted(Settled(@, "balance", applied, TRUE)) ]
         /\ ledger' = IF req'[r].result = "ok"
                        THEN [ ledger EXCEPT ![u] = @ + req[r].coinsToAdd ]
                      ELSE ledger
  /\ UNCHANGED <<user_stats, user_achievements, unlockReports, now, budget, NotReward>>

GrantPurchaseMark(r) ==
  /\ req[r].kind = "claim_purchase_rewards" /\ req[r].pc = "updates"
  /\ "mark" \in req[r].pending
  /\ LET u == req[r].telegramId IN
       \E applied \in BOOLEAN :
         /\ user_stats' = IF applied
                            THEN MarkPurchaseRewards(user_stats, u, req[r].toClaim, now)
                          ELSE user_stats
         /\ now' = IF applied THEN now + 1 ELSE now
         /\ req' = [ req EXCEPT ![r] = Granted(Settled(@, "mark", applied, TRUE)) ]
         /\ ledger' = IF req'[r].result = "ok"
                        THEN [ ledger EXCEPT ![u] = @ + req[r].coinsToAdd ]
                      ELSE ledger
  /\ UNCHANGED <<profiles, user_achievements, rewardCoins, unlockReports, budget, NotReward>>

\* the buttons the callback claim_p_ can carry: the text after the prefix
ClaimPInputs == { "1", "3", "5", "2" }

BotClaimPStart(r, u, thresholdStr) ==
  /\ Admit(r)
  /\ LET threshold == IF thresholdStr = "1" THEN 1
                      ELSE IF thresholdStr = "3" THEN 3
                      ELSE IF thresholdStr = "5" THEN 5 ELSE 0
         q == [ Fresh(u) EXCEPT !.kind = "claim_p", !.threshold = threshold ]
     IN req' = [ req EXCEPT ![r] =
          IF threshold \notin {1, 3, 5} THEN Respond(q, "unknown_button")
          ELSE [ q EXCEPT !.pc = "stats" ] ]
  /\ UNCHANGED <<profiles, user_stats, user_achievements, rewardCoins, ledger,
                 unlockReports, now, NotReward>>

\* grantSinglePurchaseAchievementReward: select tickets_purchased and the marker
BotClaimPStats(r) ==
  /\ req[r].kind = "claim_p" /\ req[r].pc = "stats"
  /\ LET stats == user_stats[req[r].telegramId]
         threshold == req[r].threshold
         key == PurchaseKey(threshold)
         coins == PURCHASE_ACHIEVEMENT_REWARDS(threshold)
         ticketsPurchased == stats.tickets_purchased
         claimedAt == stats[key]
     IN req' = [ req EXCEPT ![r] =
          IF ticketsPurchased < threshold \/ claimedAt # NULL THEN Respond(@, "no_reward")
          ELSE [ @ EXCEPT !.pc = "profile", !.toClaim = {threshold}, !.coinsToAdd = coins ] ]
  /\ UNCHANGED <<profiles, user_stats, user_achievements, rewardCoins, ledger,
                 unlockReports, now, budget, NotReward>>

BotClaimPProfile(r) ==
  /\ req[r].kind = "claim_p" /\ req[r].pc = "profile"
  /\ req' = [ req EXCEPT ![r].pc = "updates",
                         ![r].newBalance = profiles[req[r].telegramId] + req[r].coinsToAdd,
                         ![r].pending = {"balance", "mark"} ]
  /\ UNCHANGED <<profiles, user_stats, user_achievements, rewardCoins, ledger,
                 unlockReports, now, budget, NotReward>>

BotClaimPBalance(r) ==
  /\ req[r].kind = "claim_p" /\ req[r].pc = "updates"
  /\ "balance" \in req[r].pending
  /\ LET u == req[r].telegramId IN
       \E applied \in BOOLEAN :
         /\ profiles' = IF applied THEN [ profiles EXCEPT ![u] = req[r].newBalance ]
                        ELSE profiles
         /\ rewardCoins' = IF applied
                             THEN [ rewardCoins EXCEPT ![u]["purchase"] =
                                      @ + req[r].newBalance - profiles[u] ]
                           ELSE rewardCoins
         /\ req' = [ req EXCEPT ![r] = Granted(Settled(@, "balance", applied, TRUE)) ]
         /\ ledger' = IF req'[r].result = "ok"
                        THEN [ ledger EXCEPT ![u] = @ + req[r].coinsToAdd ]
                      ELSE ledger
  /\ UNCHANGED <<user_stats, user_achievements, unlockReports, now, budget, NotReward>>

BotClaimPMark(r) ==
  /\ req[r].kind = "claim_p" /\ req[r].pc = "updates"
  /\ "mark" \in req[r].pending
  /\ LET u == req[r].telegramId IN
       \E applied \in BOOLEAN :
         /\ user_stats' = IF applied
                            THEN MarkPurchaseRewards(user_stats, u, req[r].toClaim, now)
                          ELSE user_stats
         /\ now' = IF applied THEN now + 1 ELSE now
         /\ req' = [ req EXCEPT ![r] = Granted(Settled(@, "mark", applied, TRUE)) ]
         /\ ledger' = IF req'[r].result = "ok"
                        THEN [ ledger EXCEPT ![u] = @ + req[r].coinsToAdd ]
                      ELSE ledger
  /\ UNCHANGED <<profiles, user_achievements, rewardCoins, unlockReports, budget, NotReward>>

(***************************************************************************)
(* The one-time rewards, the requests overlapping.                         *)
(***************************************************************************)
\* the rows of user_achievements of users with these counters: none when
\* the thresholds were not looked at yet, else one for every threshold
\* reached, with or without its reward claimed (at the time 1)
UnlockedRows(games_visited, tickets_purchased, rows) ==
  [ k \in Users \X Slugs |->
      LET ach == ACHIEVEMENTS[FindAchievement(k[2])]
          value == IF ach.statKey = "games_visited" THEN games_visited ELSE tickets_purchased
      IN IF rows = "none" \/ value < ach.threshold THEN NoAchievementRow
         ELSE IF rows = "claimed" /\ ach.coinReward > 0
           THEN [ NewAchievementRow EXCEPT !.reward_claimed_at = 1 ]
         ELSE NewAchievementRow ]

\* games_visited, tickets_purchased and the rows of user_achievements
RewardHistories ==
  { <<0, 0, "none">>, <<5, 1, "none">>, <<5, 3, "unlocked">>, <<5, 3, "claimed">> }

InitRewards ==
  /\ catalog = Items
  /\ profiles = [ u \in Users |-> 0 ]
  /\ catalog_purchase_codes = InitPurchaseCodes
  /\ tickets = {}
  /\ \E h \in RewardHistories :
       /\ user_stats = [ u \in Users |-> StatsRow(h[1], 0, h[2]) ]
       /\ user_achievements = UnlockedRows(h[1], h[2], h[3])
  /\ event_prize_codes = InitPrizeCodes
  /\ prizeCredited = [ c \in PrizeCodes |-> 0 ]
  /\ codes = InitCodes
  /\ transactionTokens = << >>
  /\ events = InitEvents
  /\ registrations = [ k \in Events \X Users |-> 0 ]
  /\ ledger = profiles
  /\ rewardCoins = [ u \in Users |-> [ k \in RewardKeys |-> 0 ] ]
  /\ unlockReports = [ k \in Users \X Slugs |-> 0 ]
  /\ now = 1
  /\ budget = MaxMixedStarts
  /\ issued = NoIssued
  /\ event_team_stats = NoTeamStats
  /\ teamAwards = NoTeamAwards
  /\ req = [ r \in Reqs |-> IdleReq ]

NextRewards ==
  \/ \E r \in Reqs, u \in Users, achievement_slug \in AchClaimInputs :
       AchClaimStart(r, u, achievement_slug)
  \/ \E r \in Reqs : AchClaimRow(r)
  \/ \E r \in Reqs : AchClaimProfile(r)
  \/ \E r \in Reqs : AchClaimBalance(r)
  \/ \E r \in Reqs : AchClaimMark(r)
  \/ \E r \in Reqs, u \in Users : GrantPurchaseStart(r, u)
  \/ \E r \in Reqs : GrantPurchaseStats(r)
  \/ \E r \in Reqs : GrantPurchaseProfile(r)
  \/ \E r \in Reqs : GrantPurchaseBalance(r)
  \/ \E r \in Reqs : GrantPurchaseMark(r)
  \/ \E r \in Reqs, u \in Users, thresholdStr \in ClaimPInputs : BotClaimPStart(r, u, thresholdStr)
  \/ \E r \in Reqs : BotClaimPStats(r)
  \/ \E r \in Reqs : BotClaimPProfile(r)
  \/ \E r \in Reqs : BotClaimPBalance(r)
  \/ \E r \in Reqs : BotClaimPMark(r)

SpecRewards == InitRewards /\ [][NextRewards]_vars

(***************************************************************************)
(* The calls of checkAndUnlockAchievements, overlapping.                   *)
(***************************************************************************)
InitUnlock == InitRewards

NextUnlock ==
  \/ \E r \in Reqs, u \in Users : UnlockStart(r, u)
  \/ \E r \in Reqs : UnlockStats(r)
  \/ \E r \in Reqs : UnlockStep(r)

SpecUnlock == InitUnlock /\ [][NextUnlock]_vars

(***************************************************************************)
(* The achievements, the requests one after the other.                     *)
(***************************************************************************)
InitAchSeq == InitRewards

NextAchSeq ==
  \/ /\ NoneInFlight
     /\ \E r \in Reqs, u \in Users : UnlockStart(r, u)
  \/ \E r \in Reqs : UnlockStats(r)
  \/ \E r \in Reqs : UnlockStep(r)
  \/ /\ NoneInFlight
     /\ \E r \in Reqs, u \in Users, achievement_slug \in AchClaimInputs :
          AchClaimStart(r, u, achievement_slug)
  \/ \E r \in Reqs : AchClaimRow(r)
  \/ \E r \in Reqs : AchClaimProfile(r)
  \/ \E r \in Reqs : AchClaimBalance(r)
  \/ \E r \in Reqs : AchClaimMark(r)

SpecAchSeq == InitAchSeq /\ [][NextAchSeq]_vars

(***************************************************************************)
(* The requests one after the other: a request is admitted only when no    *)
(* other is in flight.                                                     *)
(***************************************************************************)
InitSeq ==
  /\ catalog = Items
  /\ profiles = [ u \in Users |-> 0 ]
  /\ catalog_purchase_codes = InitPurchaseCodes
  /\ tickets = {}
  /\ user_stats = InitStats
  /\ event_prize_codes = InitPrizeCodes
  /\ prizeCredited = [ c \in PrizeCodes |-> 0 ]
  /\ codes = InitCodes
  /\ transactionTokens = << >>
  /\ events = InitEvents
  /\ registrations = [ k \in Events \X Users |-> 0 ]
  /\ ledger = profiles
  /\ user_achievements = InitAchievements
  /\ rewardCoins = [ u \in Users |-> [ k \in RewardKeys |-> 0 ] ]
  /\ unlockReports = [ k \in Users \X Slugs |-> 0 ]
  /\ now = 1
  /\ budget = MaxSeqStarts
  /\ issued = NoIssued
  /\ event_team_stats = NoTeamStats
  /\ teamAwards = NoTeamAwards
  /\ req = [ r \in Reqs |-> IdleReq ]

NextSeq ==
  \/ /\ NoneInFlight
     /\ \E r \in Reqs, u \in Users, in \in RegisterInputs : RegisterStart(r, u, in[1], in[2])
  \/ \E r \in Reqs : RegisterEvent(r)
  \/ \E r \in Reqs : RegisterExisting(r)
  \/ \E r \in Reqs : RegisterTeam(r)
  \/ \E r \in Reqs : RegisterInsert(r)
  \/ \E r \in Reqs : VisitProfile(r)
  \/ \E r \in Reqs : VisitUpdate(r)
  \/ \E r \in Reqs : VisitIncrementStat(r)
  \/ /\ NoneInFlight
     /\ \E r \in Reqs, u \in Users, code \in ClaimInputs : ClaimStart(r, u, code)
  \/ \E r \in Reqs : ClaimLookup(r)
  \/ \E r \in Reqs : ClaimMarkUsed(r)
  \/ \E r \in Reqs : ClaimProfile(r)
  \/ \E r \in Reqs : ClaimCredit(r)
  \/ \E r \in Reqs : ClaimIncrementStat(r)

SpecSeq == InitSeq /\ [][NextSeq]_vars

\* request r is answered in this step
Answered(r) == req[r].pc \notin {"idle", "done"} /\ req'[r].pc = "done"

(***************************************************************************)
(* Claims about POST /events/register.                                     *)
(***************************************************************************)
\* C11: with the requests one after the other, a POST /events/register with
\* an event's code that finds no registration of the user for the event and
\* is answered with success leaves exactly one registration row, games_visited
\* one higher and the balance higher by the visit reward; one that finds the
\* registration is answered 'already registered' and leaves the row count at
\* one and the user's balance and counters as they were.
C11_SecondRegisterRefused ==
  [][ \A r \in Reqs :
        (req[r].kind = "register" /\ req[r].eventId # "none" /\ Answered(r)) =>
          LET u == req[r].telegramId
              e == req[r].eventId
              s == req[r].seen
          IN /\ (s.rows[e] = 0 /\ req'[r].result = "ok") =>
                  /\ registrations'[<<e, u>>] = 1
                  /\ user_stats'[u].games_visited = s.stats.games_visited + 1
                  /\ profiles'[u] = s.balance + REGISTRATION_REWARD
             /\ s.rows[e] = 1 =>
                  /\ req'[r].result = "already_registered"
                  /\ registrations'[<<e, u>>] = 1
                  /\ profiles'[u] = s.balance
                  /\ user_stats'[u] = s.stats ]_vars

\* a user registered with success and was then refused for the same event
C11_Witness ==
  \E r, q \in Reqs : \E u \in Users :
    /\ r # q
    /\ req[r].kind = "register" /\ req[r].telegramId = u /\ req[r].result = "ok"
    /\ req[q].kind = "register" /\ req[q].telegramId = u
    /\ req[q].code = req[r].code /\ req[q].code = RC1
    /\ req[q].result = "already_registered"
    /\ registrations[<<"e1", u>>] = 1
    /\ user_stats[u].games_visited = 1
    /\ profiles[u] = REGISTRATION_REWARD

\* C12: a POST /events/register with an event's code, once answered, has
\* applied the registration row, the visit credit and the games_visited
\* increment all together or none of them, also when the balance update or
\* the counter increment fails after the row was inserted.
C12_RegistrationAllOrNothing ==
  \A r \in Reqs :
    (req[r].kind = "register" /\ req[r].pc = "done" /\ req[r].code # REGISTER_TEST_CODE)
      => req[r].writes \in { {}, {"registration", "balance", "stat"} }

(***************************************************************************)
(* Claims about the test codes.                                            *)
(***************************************************************************)
\* the request in slot q carries a test code
IsTestCall(q) ==
  \/ q.kind = "register" /\ q.code = REGISTER_TEST_CODE
  \/ q.kind = "claim" /\ q.code = BINGO_TEST_CODE

VisitClaimKinds == {"claim_visit_reward", "claim_visit"}

\* C14: with the requests one after the other, a claim of the visit reward
\* (POST /achievements/claim-visit-reward or the callback claim_visit) made
\* at a progress below the interval is refused and leaves the balance and
\* the counters as they were; one made at a progress of at least the interval
\* is not refused and, answered with success, has raised visit_rewards_claimed
\* by exactly one, credited exactly the visit reward and lowered the progress
\* by exactly the interval; so the rewards claimed never exceed
\* floor(games_visited / interval).
C14_VisitClaimExact ==
  /\ [][ \A r \in Reqs :
           (req[r].kind \in VisitClaimKinds /\ Answered(r)) =>
             LET u == req[r].telegramId
                 s == req[r].seen
                 every == VISIT_REWARD_EVERY
                 progress == s.stats.games_visited - s.stats.visit_rewards_claimed * every
                 progressAfter == user_stats'[u].games_visited
                                    - user_stats'[u].visit_rewards_claimed * every
             IN /\ progress < every =>
                     /\ req'[r].result = "no_reward"
                     /\ profiles'[u] = s.balance
                     /\ user_stats'[u] = s.stats
                /\ progress >= every => req'[r].result # "no_reward"
                /\ req'[r].result = "ok" =>
                     /\ user_stats'[u].visit_rewards_claimed = s.stats.visit_rewards_claimed + 1
                     /\ profiles'[u] = s.balance + VISIT_REWARD_COINS
                     /\ progressAfter = progress - every ]_vars
  /\ [](\A u \in Users :
          user_stats[u].visit_rewards_claimed * VISIT_REWARD_EVERY <= user_stats[u].games_visited)

(***************************************************************************)
(* Claims of the visit reward that overlap.                                *)
(***************************************************************************)
\* the visits a user can have arrived at with no reward claimed yet
VisitsBefore == {4, 5, 12}

InitVisit ==
  /\ catalog = Items
  /\ profiles = [ u \in Users |-> 0 ]
  /\ catalog_purchase_codes = InitPurchaseCodes
  /\ tickets = {}
  /\ \E n \in VisitsBefore : user_stats = [ u \in Users |-> StatsRow(n, 0, 0) ]
  /\ event_prize_codes = InitPrizeCodes
  /\ prizeCredited = [ c \in PrizeCodes |-> 0 ]
  /\ codes = InitCodes
  /\ transactionTokens = << >>
  /\ events = InitEvents
  /\ registrations = [ k \in Events \X Users |-> 0 ]
  /\ ledger = profiles
  /\ user_achievements = InitAchievements
  /\ rewardCoins = [ u \in Users |-> [ k \in RewardKeys |-> 0 ] ]
  /\ unlockReports = [ k \in Users \X Slugs |-> 0 ]
  /\ now = 1
  /\ budget = MaxMixedStarts
  /\ issued = NoIssued
  /\ event_team_stats = NoTeamStats
  /\ teamAwards = NoTeamAwards
  /\ req = [ r \in Reqs |-> IdleReq ]

NextVisit ==
  \/ \E r \in Reqs, u \in Users : ClaimVisitRewardStart(r, u)
  \/ \E r \in Reqs : ClaimVisitRewardStats(r)
  \/ \E r \in Reqs : ClaimVisitRewardProfile(r)
  \/ \E r \in Reqs : ClaimVisitRewardBalance(r)
  \/ \E r \in Reqs : ClaimVisitRewardMark(r)
  \/ \E r \in Reqs, u \in Users : BotClaimVisitStart(r, u)
  \/ \E r \in Reqs : BotClaimVisitStats(r)
  \/ \E r \in Reqs : BotClaimVisitProfile(r)
  \/ \E r \in Reqs : BotClaimVisitBalance(r)
  \/ \E r \in Reqs : BotClaimVisitMark(r)

SpecVisit == InitVisit /\ [][NextVisit]_vars

\* C15: the visit reward is paid once per window of visits, also when claims
\* (API and bot) of one user overlap: once the claims are all answered with
\* success, both updates of each applied, the coins added to a user's balance
\* as visit rewards are visit_rewards_claimed times the reward, and the
\* rewards claimed are at most floor(games_visited / interval).
C15_VisitRewardPaidOnce ==
  (\A r \in Reqs : /\ req[r].pc = "done" /\ req[r].kind \in VisitClaimKinds
                   /\ req[r].result = "ok" /\ req[r].writes = {"balance", "stat"})
    => \A u \in Users :
         /\ rewardCoins[u]["visit"] = user_stats[u].visit_rewards_claimed * VISIT_REWARD_COINS
         /\ user_stats[u].visit_rewards_claimed * VISIT_REWARD_EVERY
              <= user_stats[u].games_visited

\* C16: with the requests one after the other, a claim of the visit reward
\* passes its progress check exactly in the states where GET /achievements
\* reports visit_reward_pending; GET /achievements reports it true at 5 visits
\* and 0 rewards claimed, and false at 1 reward claimed and fewer than 10
\* visits.
C16_PendingIffClaimable ==
  [][ \A r \in Reqs :
        /\ (req[r].kind \in VisitClaimKinds /\ req[r].pc = "stats" /\ req'[r].pc # "stats")
             => ( req'[r].pc = "profile" <=> visitRewardPending(user_stats[req[r].telegramId]) )
        /\ (req[r].kind = "get_achievements" /\ Answered(r))
             => LET stats == user_stats[req[r].telegramId] IN
                  /\ (stats.games_visited = 5 /\ stats.visit_rewards_claimed = 0)
                       => req'[r].result = "pending"
                  /\ (stats.games_visited < 10 /\ stats.visit_rewards_claimed = 1)
                       => req'[r].result = "not_pending" ]_vars

\* after a claim of a user with 5 visits succeeded, GET /achievements reports
\* no pending reward for the user, who has 1 reward claimed
C16_Witness ==
  \E r, q \in Reqs : \E u \in Users :
    /\ req[r].kind = "claim_visit_reward" /\ req[r].telegramId = u /\ req[r].result = "ok"
    /\ req[q].kind = "get_achievements" /\ req[q].telegramId = u
    /\ req[q].result = "not_pending"
    /\ user_stats[u].games_visited = 5 /\ user_stats[u].visit_rewards_claimed = 1

(***************************************************************************)
(* Claims about the rewards of the achievements.                           *)
(***************************************************************************)
\* the configured reward of a slug of ACHIEVEMENTS
CoinReward(slug) == ACHIEVEMENTS[FindAchievement(slug)].coinReward

\* C17: with the requests one after the other, a POST /achievements/claim
\* for an unlocked slug with a reward that is not claimed yet is not refused
\* and, answered with success, has set reward_claimed_at and credited exactly
\* the configured reward; one for a slug whose reward is claimed is answered
\* 'already claimed' and leaves the balance as it was.
C17_SecondClaimRefused ==
  [][ \A r \in Reqs :
        (req[r].kind = "claim_achievement" /\ Answered(r)) =>
          LET u == req[r].telegramId
              slug == req[r].achievement_slug
              s == req[r].seen
              row == s.achievements[slug]
          IN /\ (row.exists /\ row.reward_claimed_at = NULL) =>
                  /\ req'[r].result \in {"ok", "error"}
                  /\ req'[r].result = "ok" =>
                       /\ user_achievements'[<<u, slug>>].reward_claimed_at # NULL
                       /\ profiles'[u] = s.balance + CoinReward(slug)
             /\ (row.exists /\ row.reward_claimed_at # NULL) =>
                  /\ req'[r].result = "already_claimed"
                  /\ profiles'[u] = s.balance
                  /\ user_achievements'[<<u, slug>>] = row ]_vars

\* a user claimed the reward of in_rhythm with success and was then refused:
\* the balance holds one payout
C17_Witness ==
  \E r, q \in Reqs : \E u \in Users :
    /\ r # q
    /\ req[r].kind = "claim_achievement" /\ req[r].telegramId = u
    /\ req[r].achievement_slug = "in_rhythm" /\ req[r].result = "ok"
    /\ req[q].kind = "claim_achievement" /\ req[q].telegramId = u
    /\ req[q].achievement_slug = "in_rhythm" /\ req[q].result = "already_claimed"
    /\ user_achievements[<<u, "in_rhythm">>].reward_claimed_at # NULL
    /\ profiles[u] = CoinReward("in_rhythm")

\* C19: a POST /achievements/claim that finds no row of the user for the
\* slug is answered 'not unlocked', one that finds the reward claimed is
\* answered 'already claimed'; the refusal changes no balance and no row of
\* user_achievements, and the refused request has written nothing.
C19_RefusedClaimChangesNothing ==
  [][ \A r \in Reqs :
        (req[r].kind = "claim_achievement" /\ req[r].pc = "row" /\ req'[r].pc # "row") =>
          LET row == user_achievements[<<req[r].telegramId, req[r].achievement_slug>>] IN
            /\ ~row.exists => req'[r].result = "not_unlocked"
            /\ (row.exists /\ row.reward_claimed_at # NULL) => req'[r].result = "already_claimed"
            /\ req'[r].result \in {"not_unlocked", "already_claimed"} =>
                 /\ UNCHANGED <<profiles, user_achievements>>
                 /\ req'[r].writes = {} ]_vars

\* one claim was refused as not unlocked and one as already claimed
C19_Witness ==
  \E r, q \in Reqs :
    /\ req[r].kind = "claim_achievement" /\ req[r].result = "not_unlocked"
    /\ ~user_achievements[<<req[r].telegramId, req[r].achievement_slug>>].exists
    /\ req[q].kind = "claim_achievement" /\ req[q].result = "already_claimed"
    /\ user_achievements[<<req[q].telegramId, req[q].achievement_slug>>].reward_claimed_at # NULL

\* C18: a one-time reward is credited at most once per user, also when the
\* claims of it overlap (POST /achievements/claim, POST
\* /achievements/claim-purchase-rewards, the callback claim_p_): once the
\* requests are all answered with success, both updates of each applied, the
\* coins added to a user's balance for a slug are at most its reward, and
\* those added for the purchase thresholds are at most the rewards of the
\* thresholds the user has reached.
C18_OneTimeRewardPaidOnce ==
  (\A r \in Reqs : /\ req[r].pc = "done" /\ req[r].result = "ok"
                   /\ req[r].kind \in {"claim_achievement", "claim_purchase_rewards", "claim_p"}
                   /\ req[r].writes = {"balance", "mark"})
    => \A u \in Users :
         /\ \A slug \in Slugs : rewardCoins[u][slug] <= CoinReward(slug)
         /\ rewardCoins[u]["purchase"] <=
              TotalCoins({ t \in PurchaseThresholds : user_stats[u].tickets_purchased >= t })

(***************************************************************************)
(* Claims about checkAndUnlockAchievements.                                *)
(***************************************************************************)
\* C20: over the calls of checkAndUnlockAchievements, overlapping or not,
\* each (user, slug) is inserted and reported as newly unlocked at most once,
\* two calls for one user never both hold a slug in newlyUnlocked, and a turn
\* of the loop that meets an existing row goes on without an error and without
\* pushing the slug.
C20_UnlockWriteOnce ==
  /\ [](\A key \in Users \X Slugs : unlockReports[key] <= 1)
  /\ [](\A r, q \in Reqs :
          (r # q /\ req[r].kind = "unlock" /\ req[q].kind = "unlock"
                 /\ req[r].telegramId = req[q].telegramId)
            => req[r].newlyUnlocked \cap req[q].newlyUnlocked = {})
  /\ [][ \A r \in Reqs :
           (req[r].kind = "unlock" /\ req[r].pc = "loop") =>
             LET ach == ACHIEVEMENTS[req[r].tAttempt] IN
               ( /\ req'[r] # req[r]
                 /\ req[r].stats[ach.statKey] >= ach.threshold
                 /\ user_achievements[<<req[r].telegramId, ach.slug>>].exists )
                 => /\ req'[r].result # "error"
                    /\ req'[r].newlyUnlocked = req[r].newlyUnlocked
                    /\ req'[r].totalCoinReward = req[r].totalCoinReward
                    /\ UNCHANGED user_achievements ]_vars

\* two calls for one user overlapped: one reported in_rhythm as newly
\* unlocked, the other met the row, skipped it and returned
C20_Witness ==
  \E r, q \in Reqs : \E u \in Users :
    /\ r # q
    /\ req[r].kind = "unlock" /\ req[r].telegramId = u /\ req[r].result = "ok"
    /\ req[q].kind = "unlock" /\ req[q].telegramId = u /\ req[q].result = "ok"
    /\ "in_rhythm" \in req[r].newlyUnlocked /\ req[r].totalCoinReward = CoinReward("in_rhythm")
    /\ "first_verse" \in req[q].newlyUnlocked /\ "in_rhythm" \notin req[q].newlyUnlocked
    /\ unlockReports[<<u, "in_rhythm">>] = 1

(***************************************************************************)
(* The rewards of the purchase thresholds, the requests one after the      *)
(* other.                                                                  *)
(***************************************************************************)
\* the purchases a user can have arrived at with no threshold claimed yet
PurchasesBefore == {0, 1, 3, 5}

InitGrantSeq ==
  /\ catalog = Items
  /\ profiles = [ u \in Users |-> 0 ]
  /\ catalog_purchase_codes = InitPurchaseCodes
  /\ tickets = {}
  /\ \E n \in PurchasesBefore : user_stats = [ u \in Users |-> StatsRow(0, 0, n) ]
  /\ event_prize_codes = InitPrizeCodes
  /\ prizeCredited = [ c \in PrizeCodes |-> 0 ]
  /\ codes = InitCodes
  /\ transactionTokens = << >>
  /\ events = InitEvents
  /\ registrations = [ k \in Events \X Users |-> 0 ]
  /\ ledger = profiles
  /\ user_achievements = InitAchievements
  /\ rewardCoins = [ u \in Users |-> [ k \in RewardKeys |-> 0 ] ]
  /\ unlockReports = [ k \in Users \X Slugs |-> 0 ]
  /\ now = 1
  /\ budget = MaxSeqStarts
  /\ issued = NoIssued
  /\ event_team_stats = NoTeamStats
  /\ teamAwards = NoTeamAwards
  /\ req = [ r \in Reqs |-> IdleReq ]

NextGrantSeq ==
  \/ /\ NoneInFlight
     /\ \E r \in Reqs, u \in Users : GrantPurchaseStart(r, u)
  \/ \E r \in Reqs : GrantPurchaseStats(r)
  \/ \E r \in Reqs : GrantPurchaseProfile(r)
  \/ \E r \in Reqs : GrantPurchaseBalance(r)
  \/ \E r \in Reqs : GrantPurchaseMark(r)
  \/ /\ NoneInFlight
     /\ \E r \in Reqs, u \in Users, thresholdStr \in ClaimPInputs : BotClaimPStart(r, u, thresholdStr)
  \/ \E r \in Reqs : BotClaimPStats(r)
  \/ \E r \in Reqs : BotClaimPProfile(r)
  \/ \E r \in Reqs : BotClaimPBalance(r)
  \/ \E r \in Reqs : BotClaimPMark(r)

SpecGrantSeq == InitGrantSeq /\ [][NextGrantSeq]_vars

\* the thresholds that qualify in a user_stats row: reached, marker unset
Qualifying(stats) ==
  { t \in PurchaseThresholds : stats.tickets_purchased >= t /\ stats[PurchaseKey(t)] = NULL }

\* C21: with the requests one after the other, a call of
\* grantPurchaseAchievementRewards that finds no threshold reached and
\* unclaimed returns coinsAdded = 0 and changes neither the balance nor the
\* counters; one that returns coins has added to the balance exactly the sum of
\* the rewards of the thresholds reached and unclaimed (several at once
\* accumulate), has set exactly their markers and left every other marker as
\* it was.
C21_GrantPaysQualifyingThresholds ==
  [][ \A r \in Reqs :
        (req[r].kind = "claim_purchase_rewards" /\ Answered(r)) =>
          LET u == req[r].telegramId
              s == req[r].seen
              Q == Qualifying(s.stats)
          IN /\ Q = {} => /\ req'[r].result = "no_reward"
                          /\ profiles'[u] = s.balance
                          /\ user_stats'[u] = s.stats
             /\ req'[r].result = "ok" =>
                  /\ Q # {}
                  /\ profiles'[u] = s.balance
                       + (IF 1 \in Q THEN PURCHASE_ACHIEVEMENT_REWARDS(1) ELSE 0)
                       + (IF 3 \in Q THEN PURCHASE_ACHIEVEMENT_REWARDS(3) ELSE 0)
                       + (IF 5 \in Q THEN PURCHASE_ACHIEVEMENT_REWARDS(5) ELSE 0)
                  /\ \A t \in PurchaseThresholds :
                       IF t \in Q THEN user_stats'[u][PurchaseKey(t)] # NULL
                       ELSE user_stats'[u][PurchaseKey(t)] = s.stats[PurchaseKey(t)]
                  /\ user_stats'[u].tickets_purchased = s.stats.tickets_purchased ]_vars

\* a user with 3 purchases took the reward of threshold 1 by the bot and the
\* rest by the API: threshold 3 alone was paid then, threshold 5 stays unset
C21_Witness ==
  \E r, q \in Reqs : \E u \in Users :
    /\ req[r].kind = "claim_p" /\ req[r].telegramId = u /\ req[r].result = "ok"
    /\ req[r].threshold = 1
    /\ req[q].kind = "claim_purchase_rewards" /\ req[q].telegramId = u /\ req[q].result = "ok"
    /\ user_stats[u].tickets_purchased = 3
    /\ user_stats[u].purchase_reward_1_claimed_at # NULL
    /\ user_stats[u].purchase_reward_3_claimed_at # NULL
    /\ user_stats[u].purchase_reward_3_claimed_at # user_stats[u].purchase_reward_1_claimed_at
    /\ user_stats[u].purchase_reward_5_claimed_at = NULL
    /\ profiles[u] = PURCHASE_ACHIEVEMENT_REWARDS(1) + PURCHASE_ACHIEVEMENT_REWARDS(3)

(***************************************************************************)
(* The counters of user_stats under overlapping requests: claims of the    *)
(* visit reward and registrations with the test code.                      *)
(***************************************************************************)
\* the visits a user can have arrived at with two rewards to claim
VisitsForTwoRewards == {10, 12}

InitCounters ==
  /\ catalog = Items
  /\ profiles = [ u \in Users |-> 0 ]
  /\ catalog_purchase_codes = InitPurchaseCodes
  /\ tickets = {}
  /\ \E n \in VisitsForTwoRewards : user_stats = [ u \in Users |-> StatsRow(n, 0, 0) ]
  /\ event_prize_codes = InitPrizeCodes
  /\ prizeCredited = [ c \in PrizeCodes |-> 0 ]
  /\ codes = InitCodes
  /\ transactionTokens = << >>
  /\ events = InitEvents
  /\ registrations = [ k \in Events \X Users |-> 0 ]
  /\ ledger = profiles
  /\ user_achievements = InitAchievements
  /\ rewardCoins = [ u \in Users |-> [ k \in RewardKeys |-> 0 ] ]
  /\ unlockReports = [ k \in Users \X Slugs |-> 0 ]
  /\ now = 1
  /\ budget = MaxStarts
  /\ issued = NoIssued
  /\ event_team_stats = NoTeamStats
  /\ teamAwards = NoTeamAwards
  /\ req = [ r \in Reqs |-> IdleReq ]

NextCounters ==
  \/ \E r \in Reqs, u \in Users : ClaimVisitRewardStart(r, u)
  \/ \E r \in Reqs : ClaimVisitRewardStats(r)
  \/ \E r \in Reqs : ClaimVisitRewardProfile(r)
  \/ \E r \in Reqs : ClaimVisitRewardBalance(r)
  \/ \E r \in Reqs : ClaimVisitRewardMark(r)
  \/ \E r \in Reqs, u \in Users : RegisterStart(r, u, REGISTER_TEST_CODE, "")
  \/ \E r \in Reqs : VisitProfile(r)
  \/ \E r \in Reqs : VisitUpdate(r)
  \/ \E r \in Reqs : VisitIncrementStat(r)

SpecCounters == InitCounters /\ [][NextCounters]_vars

Counters == {"games_visited", "tickets_purchased", "bingo_collected", "visit_rewards_claimed"}

\* C22: no step lowers a counter of user_stats (games_visited,
\* tickets_purchased, bingo_collected, visit_rewards_claimed) of any user,
\* also when claims of the visit reward of one user overlap.
C22_CountersNeverDecrease ==
  [][ \A u \in Users : \A k \in Counters : user_stats'[u][k] >= user_stats[u][k] ]_vars

(***************************************************************************)
(* Claims about the claimed markers.                                       *)
(***************************************************************************)
\* C23: a claimed marker that is set (purchase_reward_N_claimed_at of a user,
\* reward_claimed_at of an achievement row) keeps its value in every step: no
\* later or overlapping request writes another value into it or clears it.
C23_MarkersWriteOnce ==
  [][ /\ \A u \in Users : \A t \in PurchaseThresholds :
           user_stats[u][PurchaseKey(t)] # NULL
             => user_stats'[u][PurchaseKey(t)] = user_stats[u][PurchaseKey(t)]
      /\ \A key \in Users \X Slugs :
           user_achievements[key].reward_claimed_at # NULL
             => user_achievements'[key].reward_claimed_at
                  = user_achievements[key].reward_claimed_at ]_vars

(***************************************************************************)
(* Code issuance: POST /events/:eventId/prize-codes (events.ts),           *)
(* POST /admin/events (admin.ts), POST /catalog/generate-purchase-code     *)
(* (catalog.ts).  The rows these handlers insert are counted in issued, so *)
(* that two rows with one code stay visible.                               *)
(***************************************************************************)
prizeMaxAttempts == 50
eventMaxAttempts == 30
purchaseCodeMaxAttempts == 10

Insert(table, code) == [ issued EXCEPT ![<<table, code>>] = @ + 1 ]

\* select id from event_prize_codes where code = ... maybeSingle()
existingPrize(code) ==
  code \in DOMAIN event_prize_codes \/ issued[<<"event_prize_codes", code>>] > 0

\* select id from tickets where code = ... maybeSingle()
existingTicket(code) == TicketCodeTaken(code)

\* select id from events where code = ... maybeSingle()
existingEvent(code) ==
  \/ \E e \in DOMAIN events : events[e].code = code
  \/ issued[<<"events", code>>] > 0

\* the unique index on catalog_purchase_codes.code answers 23505
PurchaseCodeTaken(code) ==
  code \in DOMAIN catalog_purchase_codes
    \/ issued[<<"catalog_purchase_codes", code>>] > 0

NotIssue == <<catalog, profiles, catalog_purchase_codes, tickets, user_stats,
              event_prize_codes, prizeCredited, codes, transactionTokens,
              events, registrations, ledger, user_achievements, rewardCoins,
              unlockReports, now, event_team_stats, teamAwards>>

\* let code = randomPart()
IssuePrizeStart(r, u, code) ==
  /\ Admit(r)
  /\ req' = [ req EXCEPT ![r] =
       [ IdleReq EXCEPT !.kind = "issue_prize", !.pc = "check",
                        !.telegramId = u, !.code = code ] ]
  /\ UNCHANGED <<NotIssue, issued>>

\* the mutant: the loop does not count its attempts
IssuePrizeCheck_Uncounted(r) ==
  /\ req[r].kind = "issue_prize" /\ req[r].pc = "check"
  /\ IF ~existingPrize(req[r].code) /\ ~existingTicket(req[r].code)
       THEN req' = [ req EXCEPT ![r].pc = "insert" ]
       ELSE \E code \in PrizeCandidates :
              req' = [ req EXCEPT ![r].code = code ]
  /\ UNCHANGED <<NotIssue, issued, budget>>

\* one pass of the loop: both selects, then break or a new candidate
IssuePrizeCheck(r) ==
  /\ req[r].kind = "issue_prize" /\ req[r].pc = "check"
  /\ IF ~existingPrize(req[r].code) /\ ~existingTicket(req[r].code)
       THEN req' = [ req EXCEPT ![r].pc = "insert" ]
       ELSE \E code \in PrizeCandidates :
              req' = [ req EXCEPT ![r].code = code,
                                  ![r].tAttempt = @ + 1,
                                  ![r].pc = IF req[r].tAttempt + 1 < prizeMaxAttempts
                                              THEN "check" ELSE "insert" ]
  /\ UNCHANGED <<NotIssue, issued, budget>>

\* insert into event_prize_codes, 201 with the code or 500
IssuePrizeInsert(r) ==
  /\ req[r].kind = "issue_prize" /\ req[r].pc = "insert"
  /\ \/ /\ issued' = Insert("event_prize_codes", req[r].code)
        /\ req' = [ req EXCEPT ![r] = Respond(@, "ok") ]
     \/ /\ req' = [ req EXCEPT ![r] = Respond(@, "error") ]   \* insertError
        /\ UNCHANGED issued
  /\ UNCHANGED <<NotIssue, budget>>

\* POST /admin/events: title checked, let code = generateEventCode()
IssueEventStart(r, u, title, code) ==
  /\ Admit(r)
  /\ LET q == [ IdleReq EXCEPT !.kind = "issue_event", !.telegramId = u,
                               !.code = code ]
     IN req' = [ req EXCEPT ![r] =
                   IF title = "" THEN Respond(q, "bad_format")
                   ELSE [ q EXCEPT !.pc = "check" ] ]
  /\ UNCHANGED <<NotIssue, issued>>

IssueEventCheck(r) ==
  /\ req[r].kind = "issue_event" /\ req[r].pc = "check"
  /\ IF ~existingEvent(req[r].code)
       THEN req' = [ req EXCEPT ![r].pc = "insert" ]
       ELSE \E code \in EventCandidates :
              req' = [ req EXCEPT ![r].code = code,
                                  ![r].tAttempt = @ + 1,
                                  ![r].pc = IF req[r].tAttempt + 1 < eventMaxAttempts
                                              THEN "check" ELSE "insert" ]
  /\ UNCHANGED <<NotIssue, issued, budget>>

IssueEventInsert(r) ==
  /\ req[r].kind = "issue_event" /\ req[r].pc = "insert"
  /\ \/ /\ issued' = Insert("events", req[r].code)
        /\ req' = [ req EXCEPT ![r] = Respond(@, "ok") ]
     \/ /\ req' = [ req EXCEPT ![r] = Respond(@, "error") ]   \* error
        /\ UNCHANGED issued
  /\ UNCHANGED <<NotIssue, budget>>

\* POST /catalog/generate-purchase-code
IssuePurchaseCodeStart(r, u, catalog_item_id) ==
  /\ Admit(r)
  /\ LET q == [ IdleReq EXCEPT !.kind = "issue_purchase_code", !.telegramId = u,
                               !.itemId = catalog_item_id ]
     IN req' = [ req EXCEPT ![r] =
                   IF catalog_item_id = "" THEN Respond(q, "bad_format")
                   ELSE [ q EXCEPT !.pc = "item" ] ]
  /\ UNCHANGED <<NotIssue, issued>>

IssuePurchaseCodeItem(r) ==
  /\ req[r].kind = "issue_purchase_code" /\ req[r].pc = "item"
  /\ req' = [ req EXCEPT ![r] =
       IF req[r].itemId \notin catalog THEN Respond(@, "target_not_found")
       ELSE [ @ EXCEPT !.pc = "insert" ] ]
  /\ UNCHANGED <<NotIssue, issued, budget>>

\* one pass of the insert loop with a freshly generated code
IssuePurchaseCodeInsert(r) ==
  /\ req[r].kind = "issue_purchase_code" /\ req[r].pc = "insert"
  /\ \E code \in PurchaseCandidates :
       \/ /\ ~PurchaseCodeTaken(code)
          /\ issued' = Insert("catalog_purchase_codes", code)
          /\ req' = [ req EXCEPT ![r] = Respond([ @ EXCEPT !.code = code ], "ok") ]
       \/ /\ PurchaseCodeTaken(code)                         \* 23505
          /\ UNCHANGED issued
          /\ req' = [ req EXCEPT ![r] =
               IF req[r].tAttempt + 1 < purchaseCodeMaxAttempts
                 THEN [ @ EXCEPT !.tAttempt = @ + 1 ]
                 ELSE Respond(@, "error") ]
       \/ /\ UNCHANGED issued                                \* another insertError
          /\ req' = [ req EXCEPT ![r] = Respond(@, "error") ]
  /\ UNCHANGED <<NotIssue, budget>>

(***************************************************************************)
(* Code issuance together with the ticket purchase, requests overlapping.  *)
(***************************************************************************)
TicketsBefore ==
  { {}, { TicketRow(K1, "u1", "mug") },
    { TicketRow(tc, "u1", "mug") : tc \in TicketCodes } }

InitIssue ==
  /\ catalog = Items
  /\ profiles = [ u \in Users |-> MaxBalance ]
  /\ catalog_purchase_codes = InitPurchaseCodes
  /\ tickets \in TicketsBefore
  /\ user_stats = InitStats
  /\ event_prize_codes = InitPrizeCodes
  /\ prizeCredited = [ c \in PrizeCodes |-> 0 ]
  /\ codes = InitCodes
  /\ transactionTokens = << >>
  /\ events = InitEvents
  /\ registrations = [ k \in Events \X Users |-> 0 ]
  /\ ledger = profiles
  /\ user_achievements = InitAchievements
  /\ rewardCoins = [ u \in Users |-> [ k \in RewardKeys |-> 0 ] ]
  /\ unlockReports = [ k \in Users \X Slugs |-> 0 ]
  /\ now = 1
  /\ budget = MaxIssueStarts
  /\ issued = NoIssued
  /\ event_team_stats = NoTeamStats
  /\ teamAwards = NoTeamAwards
  /\ req = [ r \in Reqs |-> IdleReq ]

NextIssue ==
  \/ \E r \in Reqs, code \in PrizeCandidates : IssuePrizeStart(r, "u1", code)
  \/ \E r \in Reqs : IssuePrizeCheck(r)
  \/ \E r \in Reqs : IssuePrizeInsert(r)
  \/ \E r \in Reqs, title \in {"", "quiz"}, code \in EventCandidates :
       IssueEventStart(r, "u1", title, code)
  \/ \E r \in Reqs : IssueEventCheck(r)
  \/ \E r \in Reqs : IssueEventInsert(r)
  \/ \E r \in Reqs, id \in {"", "mug"} : IssuePurchaseCodeStart(r, "u1", id)
  \/ \E r \in Reqs : IssuePurchaseCodeItem(r)
  \/ \E r \in Reqs : IssuePurchaseCodeInsert(r)
  \/ \E r \in Reqs : PurchaseStart(r, "u2", "mug")
  \/ \E r \in Reqs : PurchaseItem(r)
  \/ \E r \in Reqs : PurchaseProfile(r)
  \/ \E r \in Reqs : PurchaseDebit(r)
  \/ \E r \in Reqs : PurchaseTicketInsert(r)
  \/ \E r \in Reqs : PurchaseIncrementStat(r)

SpecIssue == InitIssue /\ [][NextIssue]_vars

\* every candidate of the request's attempts collided
AttemptsUsedUp(r) ==
  \/ /\ req[r].kind = "issue_prize" /\ req[r].pc = "insert"
     /\ req[r].tAttempt = prizeMaxAttempts
  \/ /\ req[r].kind = "issue_event" /\ req[r].pc = "insert"
     /\ req[r].tAttempt = eventMaxAttempts
  \/ /\ req[r].kind = "issue_purchase_code" /\ req[r].pc = "insert"
     /\ req[r].tAttempt = purchaseCodeMaxAttempts - 1
     /\ \A c \in PurchaseCandidates : PurchaseCodeTaken(c)
  \/ /\ req[r].kind = "purchase" /\ req[r].pc = "ticket"
     /\ req[r].tAttempt = maxAttempts - 1
     /\ \A c \in TicketCodes : TicketCodeTaken(c)

\* C24: a code generating request whose attempts all collided (50 for a
\* prize code, 30 for an event code, 10 for a purchase code or a ticket) is
\* answered with an error and stores no row.
C24_ExhaustionIsHardFailure ==
  [][ \A r \in Reqs :
        (Answered(r) /\ AttemptsUsedUp(r))
          => /\ req'[r].result = "error"
             /\ issued' = issued
             /\ tickets' = tickets ]_vars

\* the rows of event_prize_codes with the code
PrizeRows(c) ==
  (IF c \in DOMAIN event_prize_codes THEN 1 ELSE 0)
    + (IF c \in IssueCodes THEN issued[<<"event_prize_codes", c>>] ELSE 0)

\* C25: prize codes and ticket codes never collide: no two rows of
\* event_prize_codes hold the same code and no prize code is the code of a
\* ticket, in whatever order the two were issued.
C25_NoCodeCollision ==
  \A c \in PrizeCodes \cup IssueCodes :
    /\ PrizeRows(c) <= 1
    /\ ~(PrizeRows(c) > 0 /\ TicketCodeTaken(c))

\* the event's date lies before the start of the current day
PastEvent(e) == events[e].event_date < getStartOfTodayMoscow(now)

\* C26: an event whose date has passed is not redeemable on any path: no
\* step adds a registration row for it, and a request that resolved its code
\* to such an event changes no balance and no counter.
C26_PastEventNotRedeemable ==
  [][ /\ \A e \in Events, u \in Users :
           PastEvent(e) => registrations'[<<e, u>>] = registrations[<<e, u>>]
      /\ \A r \in Reqs :
           (req[r].eventId \in Events /\ PastEvent(req[r].eventId)
              /\ req'[r] # req[r])
             => profiles' = profiles /\ user_stats' = user_stats ]_vars

(***************************************************************************)
(* POST /purchase and POST /redeem-purchase-code of the catalog routes     *)
(* that notify the buyer (part_002), sendTelegramMessage (part_008).       *)
(***************************************************************************)
ShopKinds == {"shop_purchase", "shop_redeem"}

\* normalizePurchaseCode of part_002: five characters of A-Z0-9
normalizeShopCode(input) ==
  LET t == toUpperCase(trim(input)) IN
    IF Len(t) = 5 /\ IsUpperAlnum(t) THEN t ELSE NoCode

ShopPurchaseStart(r, u, catalog_item_id) ==
  /\ Admit(r)
  /\ LET q == [ IdleReq EXCEPT !.kind = "shop_purchase", !.telegramId = u,
                               !.itemId = catalog_item_id ]
     IN req' = [ req EXCEPT ![r] =
                   IF catalog_item_id = "" THEN Respond(q, "bad_format")
                   ELSE [ q EXCEPT !.pc = "item" ] ]
  /\ UNCHANGED <<profiles, user_stats, codes, now, NotBuy, ledger>>

ShopRedeemStart(r, u, rawCode) ==
  /\ Admit(r)
  /\ LET code == normalizeShopCode(rawCode)
         q == [ IdleReq EXCEPT !.kind = "shop_redeem", !.telegramId = u,
                               !.code = code ]
     IN req' = [ req EXCEPT ![r] =
                   IF code = NoCode THEN Respond(q, "bad_format")
                   ELSE [ q EXCEPT !.pc = "lookup" ] ]
  /\ UNCHANGED <<profiles, user_stats, codes, now, NotBuy, ledger>>

\* select ... from codes where code = code and type = 'purchase'
ShopRedeemLookup(r) ==
  /\ req[r].kind = "shop_redeem" /\ req[r].pc = "lookup"
  /\ LET code == req[r].code
         found == code \in StoredCodes /\ codes[code].type = "purchase"
     IN req' = [ req EXCEPT ![r] =
          IF ~found \/ codes[code].catalog_item_id = "none"
            THEN Respond(@, "target_not_found")
          ELSE IF codes[code].used_at # NULL THEN Respond(@, "already_used")
          ELSE [ @ EXCEPT !.pc = "item", !.rowId = code,
                          !.itemId = codes[code].catalog_item_id ] ]
  /\ UNCHANGED <<profiles, user_stats, codes, now, budget, NotBuy, ledger>>

ShopItem(r) ==
  /\ req[r].kind \in ShopKinds /\ req[r].pc = "item"
  /\ req' = [ req EXCEPT ![r] =
       IF req[r].itemId \notin catalog THEN Respond(@, "target_not_found")
       ELSE [ @ EXCEPT !.pc = "profile", !.price = RowPrice(req[r].itemId) ] ]
  /\ UNCHANGED <<profiles, user_stats, codes, now, budget, NotBuy, ledger>>

ShopProfile(r) ==
  /\ req[r].kind \in ShopKinds /\ req[r].pc = "profile"
  /\ LET balance == profiles[req[r].telegramId] IN
       req' = [ req EXCEPT ![r] =
         IF balance < req[r].price THEN Respond(@, "insufficient")
         ELSE [ @ EXCEPT !.pc = "debit", !.newBalance = balance - req[r].price ] ]
  /\ UNCHANGED <<profiles, user_stats, codes, now, budget, NotBuy, ledger>>

ShopDebit(r) ==
  /\ req[r].kind \in ShopKinds /\ req[r].pc = "debit"
  /\ \/ /\ profiles' = [ profiles EXCEPT ![req[r].telegramId] = req[r].newBalance ]
        /\ req' = [ req EXCEPT ![r].pc = IF req[r].kind = "shop_redeem"
                                          THEN "mark" ELSE "stat",
                                ![r].writes = @ \cup {"balance"} ]
     \/ /\ req' = [ req EXCEPT ![r] = Respond(@, "error") ]   \* updateError
        /\ UNCHANGED profiles
  /\ UNCHANGED <<user_stats, codes, now, budget, NotBuy, ledger>>

ShopRedeemMarkUsed(r) ==
  /\ req[r].kind = "shop_redeem" /\ req[r].pc = "mark"
  /\ \/ /\ codes' = MarkCodeUsed(codes, req[r].rowId, req[r].telegramId, now)
        /\ now' = now + 1
        /\ req' = [ req EXCEPT ![r].pc = "stat", ![r].writes = @ \cup {"code"} ]
     \/ /\ req' = [ req EXCEPT ![r] = Respond(@, "error") ]   \* markUsedError
        /\ UNCHANGED <<codes, now>>
  /\ UNCHANGED <<profiles, user_stats, budget, NotBuy, ledger>>

\* incrementUserStat, checkAndUnlockAchievements (returns the empty result)
ShopIncrementStat(r) ==
  /\ req[r].kind \in ShopKinds /\ req[r].pc = "stat"
  /\ \/ /\ user_stats' = incrementUserStat(user_stats, req[r].telegramId, "tickets_purchased")
        /\ req' = [ req EXCEPT ![r].pc = "notify", ![r].writes = @ \cup {"stat"} ]
     \/ /\ req' = [ req EXCEPT ![r] = Respond(@, "error") ]
        /\ UNCHANGED user_stats
  /\ UNCHANGED <<profiles, codes, now, budget, NotBuy, ledger>>

\* the mutant: a message that was not delivered fails the request
ShopNotify_ThrowsOnFailure(r) ==
  /\ req[r].kind \in ShopKinds /\ req[r].pc = "notify"
  /\ \E delivered \in BOOLEAN :
       /\ req' = [ req EXCEPT ![r] =
            Respond([ @ EXCEPT !.sent = IF delivered THEN "sent" ELSE "failed" ],
                    IF delivered THEN "ok" ELSE "error") ]
       /\ ledger' = IF delivered
                      THEN [ ledger EXCEPT ![req[r].telegramId] = @ - req[r].price ]
                      ELSE ledger
  /\ UNCHANGED <<profiles, user_stats, codes, now, budget, NotBuy>>

\* await sendTelegramMessage(...), whose result is true or false and is not
\* looked at, then res.json({success: true, ...})
ShopNotify(r) ==
  /\ req[r].kind \in ShopKinds /\ req[r].pc = "notify"
  /\ \E delivered \in BOOLEAN :
       req' = [ req EXCEPT ![r] =
         Respond([ @ EXCEPT !.sent = IF delivered THEN "sent" ELSE "failed" ], "ok") ]
  /\ ledger' = [ ledger EXCEPT ![req[r].telegramId] = @ - req[r].price ]
  /\ UNCHANGED <<profiles, user_stats, codes, now, budget, NotBuy>>

ShopRedeemInputs == { SC1, <<" ", "1", "2", "3", "4", "5">>, RC1, <<"1", "2", "3">> }

InitNotify ==
  /\ catalog = Items
  /\ profiles = [ u \in Users |-> MaxBalance ]
  /\ catalog_purchase_codes = InitPurchaseCodes
  /\ tickets = {}
  /\ user_stats = InitStats
  /\ event_prize_codes = InitPrizeCodes
  /\ prizeCredited = [ c \in PrizeCodes |-> 0 ]
  /\ codes = InitCodes
  /\ transactionTokens = << >>
  /\ events = InitEvents
  /\ registrations = [ k \in Events \X Users |-> 0 ]
  /\ ledger = profiles
  /\ user_achievements = InitAchievements
  /\ rewardCoins = [ u \in Users |-> [ k \in RewardKeys |-> 0 ] ]
  /\ unlockReports = [ k \in Users \X Slugs |-> 0 ]
  /\ now = 1
  /\ budget = MaxMixedStarts
  /\ issued = NoIssued
  /\ event_team_stats = NoTeamStats
  /\ teamAwards = NoTeamAwards
  /\ req = [ r \in Reqs |-> IdleReq ]

NextNotify ==
  \/ \E r \in Reqs, u \in Users, id \in {"", "mug", "extra_card"} :
       ShopPurchaseStart(r, u, id)
  \/ \E r \in Reqs, u \in Users, rawCode \in ShopRedeemInputs :
       ShopRedeemStart(r, u, rawCode)
  \/ \E r \in Reqs : ShopRedeemLookup(r)
  \/ \E r \in Reqs : ShopItem(r)
  \/ \E r \in Reqs : ShopProfile(r)
  \/ \E r \in Reqs : ShopDebit(r)
  \/ \E r \in Reqs : ShopRedeemMarkUsed(r)
  \/ \E r \in Reqs : ShopIncrementStat(r)
  \/ \E r \in Reqs : ShopNotify(r)

SpecNotify == InitNotify /\ [][NextNotify]_vars

\* C27: the notification never fails or undoes the purchase: at the step
\* that sends the message and answers, no table changes and the answer is
\* success, whether the message was delivered or not.
C27_NotificationFailureHarmless ==
  [][ \A r \in Reqs :
        (Answered(r) /\ req[r].kind \in ShopKinds /\ req[r].pc = "notify")
          => /\ req'[r].result = "ok"
             /\ tables' = tables ]_vars

\* a redeem whose message was not delivered, answered with success, the
\* coins taken, the code used and the purchase counted
C27_Witness ==
  \E r \in Reqs :
    /\ req[r].kind = "shop_redeem" /\ req[r].pc = "done"
    /\ req[r].sent = "failed" /\ req[r].result = "ok"
    /\ codes[SC1].used_at # NULL
    /\ profiles[req[r].telegramId] = MaxBalance - RowPrice("mug")
    /\ user_stats[req[r].telegramId].tickets_purchased = 1

(***************************************************************************)
(* The webhook delivers one callback again after it was answered: every    *)
(* delivery of a behaviour is the same button pressed by the same user.    *)
(***************************************************************************)
Redelivery(kind, u, code) ==
  /\ NoneInFlight
  /\ \A q \in Reqs :
       req[q].pc = "done"
         => req[q].kind = kind /\ req[q].telegramId = u /\ req[q].code = code

InitRedeliver ==
  /\ catalog = Items
  /\ profiles = [ u \in Users |-> MaxBalance ]
  /\ catalog_purchase_codes = InitPurchaseCodes
  /\ tickets = {}
  /\ user_stats = InitStats
  /\ event_prize_codes = InitPrizeCodes
  /\ prizeCredited = [ c \in PrizeCodes |-> 0 ]
  /\ codes = InitCodes
  /\ transactionTokens = << >>
  /\ events = InitEvents
  /\ registrations = [ k \in Events \X Users |-> 0 ]
  /\ ledger = profiles
  /\ user_achievements = InitAchievements
  /\ rewardCoins = [ u \in Users |-> [ k \in RewardKeys |-> 0 ] ]
  /\ unlockReports = [ k \in Users \X Slugs |-> 0 ]
  /\ now = 1
  /\ budget = MaxSeqStarts
  /\ issued = NoIssued
  /\ event_team_stats = NoTeamStats
  /\ teamAwards = NoTeamAwards
  /\ req = [ r \in Reqs |-> IdleReq ]

NextRedeliver ==
  \/ \E r \in Reqs, u \in Users, code \in BuyInputs :
       Redelivery("buy", u, code) /\ BuyStart(r, u, code)
  \/ \E r \in Reqs : BuyLookup(r)
  \/ \E r \in Reqs : BuyItem(r)
  \/ \E r \in Reqs : BuyProfile(r)
  \/ \E r \in Reqs : BuyDebit(r)
  \/ \E r \in Reqs : BuyMarkUsed(r)
  \/ \E r \in Reqs : BuyIncrementStat(r)
  \/ \E r \in Reqs, u \in Users :
       Redelivery("reg_cb", u, NoCode) /\ RegCbStart(r, u, "e1")
  \/ \E r \in Reqs : RegCbEvent(r)
  \/ \E r \in Reqs : RegCbExisting(r)
  \/ \E r \in Reqs : RegCbInsert(r)
  \/ \E r \in Reqs : VisitProfile(r)
  \/ \E r \in Reqs : VisitUpdate(r)
  \/ \E r \in Reqs : VisitIncrementStat(r)

SpecRedeliver == InitRedeliver /\ [][NextRedeliver]_vars

\* C28: delivering the same callback (buy_<code> or reg_<event>) again after
\* it was answered adds nothing to what one delivery can do: the price is
\* taken at most once, the purchase and the visit are counted at most once,
\* the user is registered at most once and rewarded at most once.
C28_RedeliveryAppliesOnce ==
  \A u \in Users :
    /\ profiles[u] >= MaxBalance - RowPrice("mug")
    /\ profiles[u] <= MaxBalance + REGISTRATION_REWARD
    /\ user_stats[u].tickets_purchased <= 1
    /\ user_stats[u].games_visited <= 1
    /\ registrations[<<"e1", u>>] <= 1

(***************************************************************************)
(* POST /transactions/generate-token (transactions.ts) and the clock.      *)
(***************************************************************************)
NewTokens == {"tokNew"}              \* values crypto.randomBytes(32) can draw

\* request bodies <<amount, type>>
GenerateInputs == { <<30, "add">>, <<40, "subtract">>, <<0, "add">>, <<30, "gift">> }

TokenRow(telegramId, amount, type, expiresAt) ==
  [ telegramId |-> telegramId, amount |-> amount, type |-> type,
    expiresAt |-> expiresAt ]

\* transactionTokens.set(token, row)
SetToken(map, token, row) ==
  [ t \in (DOMAIN map) \cup {token} |-> IF t = token THEN row ELSE map[t] ]

\* the mutant: the sweep keeps only tokens that have more than a minute left
Sweep_RemovesEarly(map, t0) ==
  [ t \in { k \in DOMAIN map : ~(map[k].expiresAt < t0 + 60000) } |-> map[t] ]

\* for (const [key, value] of entries) if (value.expiresAt < now) delete(key)
Sweep(map, t0) ==
  [ t \in { k \in DOMAIN map : ~(map[k].expiresAt < t0) } |-> map[t] ]

\* the handler has no await: validation, set, sweep and answer are one step
GenerateToken(u, amount, type, token) ==
  /\ budget > 0
  /\ budget' = budget - 1
  /\ token \notin DOMAIN transactionTokens
  /\ IF amount <= 0 \/ type \notin {"add", "subtract"}
       THEN UNCHANGED transactionTokens
       ELSE transactionTokens' =
              Sweep(SetToken(transactionTokens, token,
                             TokenRow(u, amount, type, now + TOKEN_TTL_MS)), now)
  /\ UNCHANGED <<profiles, now, req, NotProcess, ledger>>

\* time passes: a millisecond, or the lifetime of a token
Tick(d) ==
  /\ budget > 0
  /\ budget' = budget - 1
  /\ now' = now + d
  /\ UNCHANGED <<profiles, transactionTokens, req, NotProcess, ledger>>

InitProcess ==
  /\ catalog = Items
  /\ profiles = [ u \in Users |-> MaxBalance ]
  /\ catalog_purchase_codes = InitPurchaseCodes
  /\ tickets = {}
  /\ user_stats = InitStats
  /\ event_prize_codes = InitPrizeCodes
  /\ prizeCredited = [ c \in PrizeCodes |-> 0 ]
  /\ codes = InitCodes
  /\ transactionTokens = InitTokens
  /\ events = InitEvents
  /\ registrations = [ k \in Events \X Users |-> 0 ]
  /\ ledger = profiles
  /\ user_achievements = InitAchievements
  /\ rewardCoins = [ u \in Users |-> [ k \in RewardKeys |-> 0 ] ]
  /\ unlockReports = [ k \in Users \X Slugs |-> 0 ]
  /\ now = TOKEN_TTL_MS + 2
  /\ budget = MaxTokenStarts
  /\ issued = NoIssued
  /\ event_team_stats = NoTeamStats
  /\ teamAwards = NoTeamAwards
  /\ req = [ r \in Reqs |-> IdleReq ]

NextProcess ==
  \/ \E u \in Users, in \in GenerateInputs, token \in NewTokens :
       GenerateToken(u, in[1], in[2], token)
  \/ \E d \in {1, TOKEN_TTL_MS} : Tick(d)
  \/ \E r \in Reqs, u \in Users, token \in ProcessInputs \cup NewTokens :
       ProcessStart(r, u, token)
  \/ \E r \in Reqs : ProcessProfile(r)
  \/ \E r \in Reqs : ProcessUpdate(r)

SpecProcess == InitProcess /\ [][NextProcess]_vars

\* C29: a transaction token is used once: a /process request changes the
\* balance and answers success only while its token is still in the map, so
\* of two requests for one token, overlapping or not, at most one applies.
C29_TokenSingleUse ==
  [][ \A r \in Reqs :
        (/\ req[r].kind = "process" /\ req[r].pc = "update"
         /\ req'[r].pc = "done" /\ req'[r].result = "ok")
          => req[r].rowId \in DOMAIN transactionTokens ]_vars

\* the step is the synchronous head of a /process request in slot r
ProcessHead(r) ==
  /\ req[r].pc \in {"idle", "done"}
  /\ req'[r] # req[r]
  /\ req'[r].kind = "process"

\* the step is a /generate-token request that stored a token
Generated ==
  /\ req' = req /\ now' = now
  /\ DOMAIN transactionTokens' \ DOMAIN transactionTokens # {}

Expired(t) == transactionTokens[t].expiresAt < now

\* C30: a token lives 5 minutes: a /process request that finds its token
\* past expiresAt answers 'expired', removes exactly that token and changes
\* no balance, and goes on only with a token that is not past expiresAt; a
\* stored token expires TOKEN_TTL_MS after it was issued; the sweep of
\* /generate-token removes the expired tokens and no other.
C30_TokenExpiry ==
  [][ /\ \A r \in Reqs :
           ProcessHead(r) =>
             /\ profiles' = profiles
             /\ req'[r].result = "expired" =>
                  \E t \in DOMAIN transactionTokens :
                    /\ Expired(t)
                    /\ DOMAIN transactionTokens' = DOMAIN transactionTokens \ {t}
             /\ req'[r].result # "expired" => transactionTokens' = transactionTokens
             /\ req'[r].pc = "profile" =>
                  /\ req'[r].rowId \in DOMAIN transactionTokens
                  /\ ~Expired(req'[r].rowId)
             /\ (\A t \in DOMAIN transactionTokens : Expired(t)) =>
                  req'[r].result \in {"bad_format", "token_not_found", "expired"}
      /\ Generated =>
           /\ \A t \in DOMAIN transactionTokens :
                t \in DOMAIN transactionTokens' <=> ~Expired(t)
           /\ \A t \in DOMAIN transactionTokens' :
                IF t \in DOMAIN transactionTokens
                  THEN transactionTokens'[t] = transactionTokens[t]
                  ELSE transactionTokens'[t].expiresAt = now + TOKEN_TTL_MS ]_vars

\* the token issued by /generate-token (which swept the token that was
\* already expired) was found past its expiresAt by a /process request, which
\* removed it and no other token and left the balances as they were
C30_Witness ==
  /\ \E r \in Reqs : /\ req[r].kind = "process" /\ req[r].pc = "done"
                      /\ req[r].result = "expired"
  /\ DOMAIN transactionTokens = {"tokSub", "tokAdd"}
  /\ now = (TOKEN_TTL_MS + 2) + TOKEN_TTL_MS + 1
  /\ profiles = [ u \in Users |-> MaxBalance ]

(***************************************************************************)
(* The three handlers that take a code from the request body, overlapping. *)
(***************************************************************************)
InitFormat ==
  /\ catalog = Items
  /\ profiles = [ u \in Users |-> MaxBalance ]
  /\ catalog_purchase_codes = InitPurchaseCodes
  /\ tickets = {}
  /\ user_stats = InitStats
  /\ event_prize_codes = InitPrizeCodes
  /\ prizeCredited = [ c \in PrizeCodes |-> 0 ]
  /\ codes = InitCodes
  /\ transactionTokens = << >>
  /\ events = InitEvents
  /\ registrations = [ k \in Events \X Users |-> 0 ]
  /\ ledger = profiles
  /\ user_achievements = InitAchievements
  /\ rewardCoins = [ u \in Users |-> [ k \in RewardKeys |-> 0 ] ]
  /\ unlockReports = [ k \in Users \X Slugs |-> 0 ]
  /\ now = 1
  /\ budget = MaxMixedStarts
  /\ issued = NoIssued
  /\ event_team_stats = NoTeamStats
  /\ teamAwards = NoTeamAwards
  /\ req = [ r \in Reqs |-> IdleReq ]

NextFormat ==
  \/ \E r \in Reqs, in \in RegisterInputs : RegisterStart(r, "u1", in[1], in[2])
  \/ \E r \in Reqs : RegisterEvent(r)
  \/ \E r \in Reqs : RegisterExisting(r)
  \/ \E r \in Reqs : RegisterTeam(r)
  \/ \E r \in Reqs : RegisterInsert(r)
  \/ \E r \in Reqs : VisitProfile(r)
  \/ \E r \in Reqs : VisitUpdate(r)
  \/ \E r \in Reqs : VisitIncrementStat(r)
  \/ \E r \in Reqs, code \in ClaimInputs : ClaimStart(r, "u1", code)
  \/ \E r \in Reqs : ClaimLookup(r)
  \/ \E r \in Reqs : ClaimMarkUsed(r)
  \/ \E r \in Reqs : ClaimProfile(r)
  \/ \E r \in Reqs : ClaimCredit(r)
  \/ \E r \in Reqs : ClaimIncrementStat(r)
  \/ \E r \in Reqs, rawCode \in RedeemInputs : RedeemStart(r, "u1", rawCode)
  \/ \E r \in Reqs : RedeemLookup(r)
  \/ \E r \in Reqs : RedeemItem(r)
  \/ \E r \in Reqs : RedeemProfile(r)
  \/ \E r \in Reqs : RedeemDebit(r)
  \/ \E r \in Reqs : RedeemTicketInsert(r)
  \/ \E r \in Reqs : RedeemMarkUsed(r)
  \/ \E r \in Reqs : RedeemIncrementStat(r)

SpecFormat == InitFormat /\ [][NextFormat]_vars

\* the step is the head of a request in slot r
HeadOf(r) == req[r].pc \in {"idle", "done"} /\ req'[r] # req[r]

\* the code the handler holds after its normalisation is malformed
Malformed(kind, code) ==
  \/ kind = "register" /\ Len(code) # 5
  \/ kind = "claim" /\ (Len(code) # 5 \/ code[1] # "B")
  \/ kind = "redeem" /\ code = NoCode

\* C31: a request with a malformed code (wrong length for register and bingo
\* claim, a bingo code not starting with B, a purchase code the normaliser
\* rejects) is answered with the invalid-format error, and the step that
\* answers it changes no table.
C31_MalformedCodeChangesNothing ==
  [][ \A r \in Reqs :
        HeadOf(r) =>
          /\ Malformed(req'[r].kind, req'[r].code) =>
               req'[r].pc = "done" /\ req'[r].result = "bad_format"
          /\ req'[r].result = "bad_format" =>
               /\ tables' = tables
               /\ req'[r].writes = {} ]_vars

\* a bingo claim whose code does not start with B was refused
C31_Witness ==
  \E r \in Reqs :
    /\ req[r].kind = "claim" /\ req[r].pc = "done"
    /\ req[r].code = <<"A", "A", "1", "2", "3">>
    /\ req[r].result = "bad_format"

(***************************************************************************)
(* DELETE /admin/events/:id (admin.ts, the variant with table codes)       *)
(***************************************************************************)
NotDeleteEvent == <<catalog, profiles, catalog_purchase_codes, tickets, user_stats,
                    event_prize_codes, prizeCredited, transactionTokens, ledger,
                    user_achievements, rewardCoins, unlockReports, issued,
          event_team_stats, teamAwards, now>>

\* select location_href from events where id = id; the file is removed from storage
DeleteEventStart(r, u, id) ==
  /\ Admit(r)
  /\ req' = [ req EXCEPT ![r] =
       [ IdleReq EXCEPT !.kind = "delete_event", !.pc = "registrations",
                        !.telegramId = u, !.target = id ] ]
  /\ UNCHANGED <<registrations, codes, events, NotDeleteEvent>>

\* registrations.delete().eq('event_id', id); the result is not looked at
DeleteEventRegistrations(r) ==
  /\ req[r].kind = "delete_event" /\ req[r].pc = "registrations"
  /\ \/ registrations' =
          [ k \in DOMAIN registrations |->
              IF k[1] = req[r].target THEN 0 ELSE registrations[k] ]
     \/ UNCHANGED registrations
  /\ req' = [ req EXCEPT ![r].pc = "codes" ]
  /\ UNCHANGED <<codes, events, budget, NotDeleteEvent>>

\* codes.delete().eq('event_id', id).eq('type', 'registration'); the result
\* is not looked at
DeleteEventCodes(r) ==
  /\ req[r].kind = "delete_event" /\ req[r].pc = "codes"
  /\ \/ codes' =
          [ c \in { k \in DOMAIN codes :
                      ~(codes[k].event_id = req[r].target
                          /\ codes[k].type = "registration") } |-> codes[c] ]
     \/ UNCHANGED codes
  /\ req' = [ req EXCEPT ![r].pc = "event" ]
  /\ UNCHANGED <<registrations, events, budget, NotDeleteEvent>>

\* events.delete().eq('id', id), then success or 500
DeleteEventRow(r) ==
  /\ req[r].kind = "delete_event" /\ req[r].pc = "event"
  /\ \/ /\ events' = [ e \in (DOMAIN events) \ {req[r].target} |-> events[e] ]
        /\ req' = [ req EXCEPT ![r] = Respond(@, "ok") ]
     \/ /\ req' = [ req EXCEPT ![r] = Respond(@, "error") ]   \* error
        /\ UNCHANGED events
  /\ UNCHANGED <<registrations, codes, budget, NotDeleteEvent>>

InitAdmin ==
  /\ catalog = Items
  /\ profiles = [ u \in Users |-> MaxBalance ]
  /\ catalog_purchase_codes = InitPurchaseCodes
  /\ tickets = {}
  /\ user_stats = InitStats
  /\ event_prize_codes = InitPrizeCodes
  /\ prizeCredited = [ c \in PrizeCodes |-> 0 ]
  /\ codes = InitCodes
  /\ transactionTokens = << >>
  /\ events = InitEvents
  /\ registrations = [ k \in Events \X Users |-> 0 ]
  /\ ledger = profiles
  /\ user_achievements = InitAchievements
  /\ rewardCoins = [ u \in Users |-> [ k \in RewardKeys |-> 0 ] ]
  /\ unlockReports = [ k \in Users \X Slugs |-> 0 ]
  /\ now = 1
  /\ budget = MaxStarts
  /\ issued = NoIssued
  /\ event_team_stats = NoTeamStats
  /\ teamAwards = NoTeamAwards
  /\ req = [ r \in Reqs |-> IdleReq ]

NextAdmin ==
  \/ \E r \in Reqs, id \in Events \cup {"eX"} : DeleteEventStart(r, "u1", id)
  \/ \E r \in Reqs : DeleteEventRegistrations(r)
  \/ \E r \in Reqs : DeleteEventCodes(r)
  \/ \E r \in Reqs : DeleteEventRow(r)
  \/ \E id \in Items : AdminDeleteCatalog(id)
  \/ \E id \in Items : AdminCreateCatalog(id)
  \/ \E r \in Reqs, u \in Users : BuyStart(r, u, SC1)
  \/ \E r \in Reqs : BuyLookup(r)
  \/ \E r \in Reqs : BuyItem(r)
  \/ \E r \in Reqs : BuyProfile(r)
  \/ \E r \in Reqs : BuyDebit(r)
  \/ \E r \in Reqs : BuyMarkUsed(r)
  \/ \E r \in Reqs : BuyIncrementStat(r)

SpecAdmin == InitAdmin /\ [][NextAdmin]_vars

\* C32: codes are never deleted, only marked used: every code record that
\* was stored is still stored, whatever was deleted since.
C32_CodesNeverDeleted ==
  /\ StoredCodes \subseteq DOMAIN codes
  /\ PurchaseCodes \subseteq DOMAIN catalog_purchase_codes
  /\ PrizeCodes \subseteq DOMAIN event_prize_codes

(***************************************************************************)
(* POST /api/scanner/scan (scanner.ts, the variant with purchase codes)    *)
(***************************************************************************)
NotScan == <<catalog, profiles, catalog_purchase_codes, user_stats,
             event_prize_codes, prizeCredited, codes, transactionTokens, events,
             registrations, ledger, user_achievements, rewardCoins,
             unlockReports, issued,
          event_team_stats, teamAwards>>

\* code.trim().toUpperCase(), length 5
ScanStart(r, u, code) ==
  /\ Admit(r)
  /\ LET codeStr == toUpperCase(trim(code))
         q == [ IdleReq EXCEPT !.kind = "scan", !.telegramId = u, !.code = codeStr ]
     IN req' = [ req EXCEPT ![r] =
                   IF Len(codeStr) # 5 THEN Respond(q, "bad_format")
                   ELSE [ q EXCEPT !.pc = "ticket" ] ]
  /\ UNCHANGED <<tickets, now, NotScan>>

\* select ... from tickets where code = codeStr, maybeSingle()
ScanTicket(r) ==
  /\ req[r].kind = "scan" /\ req[r].pc = "ticket"
  /\ LET found == { t \in tickets : t.code = req[r].code } IN
       req' = [ req EXCEPT ![r] =
         IF found = {} THEN [ @ EXCEPT !.pc = "purchase" ]
         ELSE IF (CHOOSE t \in found : TRUE).used_at # NULL
           THEN Respond(@, "already_used")
         ELSE [ @ EXCEPT !.pc = "load", !.rowId = req[r].code,
                         !.target = (CHOOSE t \in found : TRUE).telegram_id,
                         !.itemId = (CHOOSE t \in found : TRUE).catalog_item_id ] ]
  /\ UNCHANGED <<tickets, now, budget, NotScan>>

\* Promise.all of the owner's profile and the catalog item
ScanLoad(r) ==
  /\ req[r].kind = "scan" /\ req[r].pc = "load"
  /\ req' = [ req EXCEPT ![r] =
       IF req[r].target \notin DOMAIN profiles THEN Respond(@, "error")
       ELSE IF req[r].itemId \notin catalog THEN Respond(@, "error")
       ELSE [ @ EXCEPT !.pc = "mark" ] ]
  /\ UNCHANGED <<tickets, now, budget, NotScan>>

\* update({used_at}).eq('id', ticket.id)
MarkTicketUsed(rows, id, usedAt) ==
  { IF t.code = id THEN [ t EXCEPT !.used_at = usedAt ] ELSE t : t \in rows }

ScanMark(r) ==
  /\ req[r].kind = "scan" /\ req[r].pc = "mark"
  /\ \/ /\ tickets' = MarkTicketUsed(tickets, req[r].rowId, now)
        /\ now' = now + 1
        /\ req' = [ req EXCEPT ![r] = Respond([ @ EXCEPT !.writes = @ \cup {"ticket"} ], "ok") ]
     \/ /\ req' = [ req EXCEPT ![r] = Respond(@, "error") ]   \* updateError
        /\ UNCHANGED <<tickets, now>>
  /\ UNCHANGED <<budget, NotScan>>

\* not a ticket: select ... from catalog_purchase_codes where code = codeStr,
\* then the buyer's profile and the item are read and returned
ScanPurchase(r) ==
  /\ req[r].kind = "scan" /\ req[r].pc = "purchase"
  /\ LET code == req[r].code IN
       req' = [ req EXCEPT ![r] =
         IF code \notin DOMAIN catalog_purchase_codes
           THEN Respond(@, "target_not_found")
         ELSE IF catalog_purchase_codes[code].used_at = NULL
                   \/ catalog_purchase_codes[code].used_by_telegram_id = "none"
           THEN Respond(@, "not_redeemed")
         ELSE IF catalog_purchase_codes[code].used_by_telegram_id \notin DOMAIN profiles
           THEN Respond(@, "error")
         ELSE IF catalog_purchase_codes[code].catalog_item_id \notin catalog
           THEN Respond(@, "error")
         ELSE Respond(@, "ok") ]
  /\ UNCHANGED <<tickets, now, budget, NotScan>>

ScanInputs ==
  { K1,
    <<" ", "b", "a", "2", "3", "4">>,      \* the same, lower case, padded
    <<"Z", "Z", "9", "9", "9">>,           \* five characters, nothing stored
    PC1,                                   \* the stored purchase code
    <<"A", "B", "1", "2", "3">>,           \* the purchase code without its prefix
    <<"B", "A">> }                         \* wrong length

\* catalog_purchase_codes after PC1 was redeemed by u1
RedeemedPurchaseCodes ==
  [ c \in PurchaseCodes |->
      [ catalog_item_id |-> PurchaseCodeItem(c), used_at |-> 1,
        used_by_telegram_id |-> "u1" ] ]

InitScan ==
  /\ catalog = Items
  /\ profiles = [ u \in Users |-> MaxBalance ]
  /\ catalog_purchase_codes \in { InitPurchaseCodes, RedeemedPurchaseCodes }
  /\ tickets \in TicketsBefore \ { {} }
  /\ user_stats = InitStats
  /\ event_prize_codes = InitPrizeCodes
  /\ prizeCredited = [ c \in PrizeCodes |-> 0 ]
  /\ codes = InitCodes
  /\ transactionTokens = << >>
  /\ events = InitEvents
  /\ registrations = [ k \in Events \X Users |-> 0 ]
  /\ ledger = profiles
  /\ user_achievements = InitAchievements
  /\ rewardCoins = [ u \in Users |-> [ k \in RewardKeys |-> 0 ] ]
  /\ unlockReports = [ k \in Users \X Slugs |-> 0 ]
  /\ now = 2
  /\ budget = MaxStarts
  /\ issued = NoIssued
  /\ event_team_stats = NoTeamStats
  /\ teamAwards = NoTeamAwards
  /\ req = [ r \in Reqs |-> IdleReq ]

NextScan ==
  \/ \E r \in Reqs, code \in ScanInputs : ScanStart(r, "u2", code)
  \/ \E r \in Reqs : ScanTicket(r)
  \/ \E r \in Reqs : ScanLoad(r)
  \/ \E r \in Reqs : ScanMark(r)
  \/ \E r \in Reqs : ScanPurchase(r)

SpecScan == InitScan /\ [][NextScan]_vars

\* C33: a ticket is accepted by the scanner at most once: a scan answers
\* success only for a ticket whose used_at is not yet set, so of two scans of
\* one ticket, overlapping or not, at most one is answered with success.
C33_TicketAcceptedOnce ==
  [][ \A r \in Reqs :
        (/\ req[r].kind = "scan" /\ req[r].pc = "mark"
         /\ req'[r].pc = "done" /\ req'[r].result = "ok")
          => \E t \in tickets : t.code = req[r].rowId /\ t.used_at = NULL ]_vars

\* C34: a prize code is marked used only together with its credit: once no
\* claim is in flight, a prize code that is marked used has had exactly its
\* coins_amount added to a balance.
C34_UsedOnlyIfCredited ==
  NoneInFlight =>
    \A c \in PrizeCodes :
      event_prize_codes[c].used_at # NULL
        => prizeCredited[c] = event_prize_codes[c].coins_amount

\* C35: a direct purchase is all-or-nothing: a finished purchase request has
\* debited the balance if and only if it has inserted a ticket, and it has
\* inserted a ticket if and only if it has incremented tickets_purchased.
C35_PurchaseAllOrNothing ==
  \A r \in Reqs :
    (req[r].kind = "purchase" /\ req[r].pc = "done")
      => /\ "balance" \in req[r].writes <=> "ticket" \in req[r].writes
         /\ "ticket" \in req[r].writes <=> "stat" \in req[r].writes

(***************************************************************************)
(* Code issuance and the ticket purchase, one request at a time.           *)
(***************************************************************************)
MaxLoopStarts == 3

InitLoops ==
  /\ catalog = Items
  /\ profiles = [ u \in Users |-> MaxBalance ]
  /\ catalog_purchase_codes = InitPurchaseCodes
  /\ tickets \in TicketsBefore
  /\ user_stats = InitStats
  /\ event_prize_codes = InitPrizeCodes
  /\ prizeCredited = [ c \in PrizeCodes |-> 0 ]
  /\ codes = InitCodes
  /\ transactionTokens = << >>
  /\ events = InitEvents
  /\ registrations = [ k \in Events \X Users |-> 0 ]
  /\ ledger = profiles
  /\ user_achievements = InitAchievements
  /\ rewardCoins = [ u \in Users |-> [ k \in RewardKeys |-> 0 ] ]
  /\ unlockReports = [ k \in Users \X Slugs |-> 0 ]
  /\ now = 1
  /\ budget = MaxLoopStarts
  /\ issued = NoIssued
  /\ event_team_stats = NoTeamStats
  /\ teamAwards = NoTeamAwards
  /\ req = [ r \in Reqs |-> IdleReq ]

NextLoops ==
  \/ /\ NoneInFlight
     /\ \E r \in Reqs, code \in PrizeCandidates : IssuePrizeStart(r, "u1", code)
  \/ \E r \in Reqs : IssuePrizeCheck(r)
  \/ \E r \in Reqs : IssuePrizeInsert(r)
  \/ /\ NoneInFlight
     /\ \E r \in Reqs, title \in {"", "quiz"}, code \in EventCandidates :
          IssueEventStart(r, "u1", title, code)
  \/ \E r \in Reqs : IssueEventCheck(r)
  \/ \E r \in Reqs : IssueEventInsert(r)
  \/ /\ NoneInFlight
     /\ \E r \in Reqs, id \in {"", "mug"} : IssuePurchaseCodeStart(r, "u1", id)
  \/ \E r \in Reqs : IssuePurchaseCodeItem(r)
  \/ \E r \in Reqs : IssuePurchaseCodeInsert(r)
  \/ /\ NoneInFlight
     /\ \E r \in Reqs : PurchaseStart(r, "u2", "mug")
  \/ \E r \in Reqs : PurchaseItem(r)
  \/ \E r \in Reqs : PurchaseProfile(r)
  \/ \E r \in Reqs : PurchaseDebit(r)
  \/ \E r \in Reqs : PurchaseTicketInsert(r)
  \/ \E r \in Reqs : PurchaseIncrementStat(r)

SpecLoops == InitLoops /\ [][NextLoops]_vars

\* the state a code generating request is in while its loop runs
LoopPc(kind) ==
  CASE kind = "issue_prize" -> "check"
    [] kind = "issue_event" -> "check"
    [] kind = "issue_purchase_code" -> "insert"
    [] kind = "purchase" -> "ticket"
    [] OTHER -> "none"

\* the loop's bound
AttemptBound(kind) ==
  CASE kind = "issue_prize" -> prizeMaxAttempts
    [] kind = "issue_event" -> eventMaxAttempts
    [] kind = "issue_purchase_code" -> purchaseCodeMaxAttempts
    [] kind = "purchase" -> maxAttempts
    [] OTHER -> 0

\* the state after the loop, from which the next step answers
AfterLoopPc(kind) ==
  CASE kind = "issue_prize" -> "insert"
    [] kind = "issue_event" -> "insert"
    [] kind = "purchase" -> "stat"
    [] OTHER -> "none"

\* C36: every code generating request terminates: a pass of its loop starts
\* with fewer attempts made than the bound (10 tickets or purchase codes, 30
\* event codes, 50 prize codes) and either leaves the loop or counts one more
\* attempt, a pass that reaches the bound leaves the loop, and the step after
\* the loop answers the request.
C36_IssuanceTerminates ==
  [][ \A r \in Reqs :
        LET kind == req[r].kind IN
        /\ ( /\ LoopPc(kind) # "none" /\ req[r].pc = LoopPc(kind)
             /\ req'[r] # req[r] )
           => /\ req[r].tAttempt < AttemptBound(kind)
              /\ \/ req'[r].pc \in {AfterLoopPc(kind), "done"}
                 \/ /\ req'[r].pc = LoopPc(kind)
                    /\ req'[r].tAttempt = req[r].tAttempt + 1
                    /\ req'[r].tAttempt < AttemptBound(kind)
        /\ ( /\ AfterLoopPc(kind) # "none" /\ req[r].pc = AfterLoopPc(kind)
             /\ req'[r] # req[r] )
           => req'[r].pc = "done" ]_vars

\* a prize code request has made all 50 attempts, each candidate collided,
\* and has left the loop for the insert that answers it
C36_Witness ==
  \E r \in Reqs :
    /\ req[r].kind = "issue_prize" /\ req[r].pc = "insert"
    /\ req[r].tAttempt = prizeMaxAttempts

(***************************************************************************)
(* POST /admin/events (admin.ts, the variant with table codes)             *)
(***************************************************************************)
MaxCreateStarts == 2

\* values generateEventCode() can draw: String(10000 + random * 90000)
NC1 == <<"7", "7", "7", "7", "7">>
CreateCandidates == {RC1, NC1}

\* ids the database gives to inserted events
NewEvents == {"e3", "e4", "e5"}

NotCreateEvent == <<catalog, profiles, catalog_purchase_codes, tickets, user_stats,
                    event_prize_codes, prizeCredited, transactionTokens, ledger,
                    user_achievements, rewardCoins, unlockReports, issued,
          event_team_stats, teamAwards,
                    registrations>>

\* the title is checked, let code = generateEventCode()
CreateEventStart(r, u, title, code) ==
  /\ Admit(r)
  /\ LET q == [ IdleReq EXCEPT !.kind = "create_event", !.telegramId = u,
                               !.code = code ]
     IN req' = [ req EXCEPT ![r] =
                   IF title = "" THEN Respond(q, "bad_format")
                   ELSE [ q EXCEPT !.pc = "check" ] ]
  /\ UNCHANGED <<codes, events, now, NotCreateEvent>>

\* one pass of the loop: select id from codes where code = code
CreateEventCheck(r) ==
  /\ req[r].kind = "create_event" /\ req[r].pc = "check"
  /\ IF req[r].code \notin DOMAIN codes
       THEN req' = [ req EXCEPT ![r].pc = "event" ]
       ELSE \E code \in CreateCandidates :
              req' = [ req EXCEPT ![r].code = code,
                                  ![r].tAttempt = @ + 1,
                                  ![r].pc = IF req[r].tAttempt + 1 < eventMaxAttempts
                                              THEN "check" ELSE "event" ]
  /\ UNCHANGED <<codes, events, now, budget, NotCreateEvent>>

\* events.insert(...).select().single()
CreateEventInsert(r) ==
  /\ req[r].kind = "create_event" /\ req[r].pc = "event"
  /\ \/ /\ NewEvents \ DOMAIN events # {}
        /\ LET id == CHOOSE e \in NewEvents \ DOMAIN events : TRUE IN
             /\ events' = [ e \in DOMAIN events \cup {id} |->
                              IF e = id THEN [ code |-> NoCode, event_date |-> now ]
                              ELSE events[e] ]
             /\ req' = [ req EXCEPT ![r].pc = "code", ![r].target = id,
                                    ![r].writes = @ \cup {"event"} ]
     \/ /\ req' = [ req EXCEPT ![r] = Respond(@, "error") ]   \* error
        /\ UNCHANGED events
  /\ UNCHANGED <<codes, now, budget, NotCreateEvent>>

\* codes.insert({code, type: 'registration', event_id}); 23505 is ignored
CreateEventCode(r) ==
  /\ req[r].kind = "create_event" /\ req[r].pc = "code"
  /\ \/ /\ req[r].code \notin DOMAIN codes
        /\ codes' = [ c \in DOMAIN codes \cup {req[r].code} |->
                        IF c = req[r].code
                          THEN [ type |-> "registration", catalog_item_id |-> "none",
                                 event_id |-> req[r].target, used_at |-> NULL,
                                 owner_telegram_id |-> "none" ]
                          ELSE codes[c] ]
        /\ req' = [ req EXCEPT ![r] = Respond([ @ EXCEPT !.writes = @ \cup {"code"} ], "ok") ]
     \/ /\ req[r].code \in DOMAIN codes                      \* 23505
        /\ UNCHANGED codes
        /\ req' = [ req EXCEPT ![r] = Respond(@, "ok") ]
     \/ /\ UNCHANGED codes                                   \* another error
        /\ req' = [ req EXCEPT ![r] = Respond(@, "error") ]
  /\ UNCHANGED <<events, now, budget, NotCreateEvent>>

InitCreate ==
  /\ catalog = Items
  /\ profiles = [ u \in Users |-> MaxBalance ]
  /\ catalog_purchase_codes = InitPurchaseCodes
  /\ tickets = {}
  /\ user_stats = InitStats
  /\ event_prize_codes = InitPrizeCodes
  /\ prizeCredited = [ c \in PrizeCodes |-> 0 ]
  /\ codes = InitCodes
  /\ transactionTokens = << >>
  /\ events = InitEvents
  /\ registrations = [ k \in Events \X Users |-> 0 ]
  /\ ledger = profiles
  /\ user_achievements = InitAchievements
  /\ rewardCoins = [ u \in Users |-> [ k \in RewardKeys |-> 0 ] ]
  /\ unlockReports = [ k \in Users \X Slugs |-> 0 ]
  /\ now = 1
  /\ budget = MaxCreateStarts
  /\ issued = NoIssued
  /\ event_team_stats = NoTeamStats
  /\ teamAwards = NoTeamAwards
  /\ req = [ r \in Reqs |-> IdleReq ]

NextCreate ==
  \/ \E r \in Reqs, title \in {"", "quiz"}, code \in CreateCandidates :
       CreateEventStart(r, "u1", title, code)
  \/ \E r \in Reqs : CreateEventCheck(r)
  \/ \E r \in Reqs : CreateEventInsert(r)
  \/ \E r \in Reqs : CreateEventCode(r)

SpecCreate == InitCreate /\ [][NextCreate]_vars

\* C37: when the creation of an event is answered 201 with a code, table
\* codes holds a registration code with that value that points to the event
\* this request inserted.
C37_CodePointsToNewEvent ==
  [][ \A r \in Reqs :
        ( /\ req[r].kind = "create_event" /\ req[r].pc = "code"
          /\ req'[r].pc = "done" /\ req'[r].result = "ok" )
        => /\ req[r].code \in DOMAIN codes'
           /\ codes'[req[r].code].type = "registration"
           /\ codes'[req[r].code].event_id = req[r].target ]_vars

(***************************************************************************)
(* POST /api/events/award-team-coins (events.ts)                           *)
(***************************************************************************)
MaxAwardStarts == 2

TEAM_REWARD_TYPES == {"team_bingo_horizontal", "team_bingo_vertical", "team_bingo_full_card"}

\* REWARD_TYPES[reward_type] of the team rewards
REWARD_TYPES(reward_type) == 150

\* request bodies <<event_id, team_id, reward_type>>
AwardInputs ==
  { <<"e1", "t1", "team_bingo_horizontal">>,
    <<"e1", "t2", "team_bingo_full_card">>,      \* a team nobody registered with
    <<"e1", "", "team_bingo_horizontal">>,
    <<"e1", "t1", "personal_bingo_horizontal">> }

\* select telegram_id from registrations where event_id and team_id match;
\* the registrations of e1 in the model were made with team t1
TeamRegs(event_id, team_id) ==
  IF team_id = "t1"
    THEN { u \in Users : registrations[<<event_id, u>>] > 0 }
    ELSE {}

NotAward == <<catalog, catalog_purchase_codes, tickets, user_stats, event_prize_codes,
              prizeCredited, codes, transactionTokens, events, registrations,
              user_achievements, rewardCoins, unlockReports, issued, now>>

\* what the loop does next: the next member, or the statistics of the team
AfterMember(q, left) ==
  [ q EXCEPT !.pending = left, !.target = "none", !.newBalance = 0,
             !.pc = IF left = {} THEN "stats" ELSE "member" ]

AwardTeamStart(r, event_id, team_id, reward_type) ==
  /\ Admit(r)
  /\ LET q == [ IdleReq EXCEPT !.kind = "award_team" ]
     IN req' = [ req EXCEPT ![r] =
          IF event_id = "" \/ team_id = "" THEN Respond(q, "bad_format")
          ELSE IF reward_type \notin TEAM_REWARD_TYPES THEN Respond(q, "bad_format")
          ELSE [ q EXCEPT !.pc = "regs", !.eventId = event_id, !.team_id = team_id,
                          !.type = reward_type ] ]
  /\ UNCHANGED <<profiles, ledger, event_team_stats, teamAwards, NotAward>>

\* the members are read, perMember = Math.floor(amount / members.length)
AwardTeamRegs(r) ==
  /\ req[r].kind = "award_team" /\ req[r].pc = "regs"
  /\ LET members == TeamRegs(req[r].eventId, req[r].team_id)
         amount == REWARD_TYPES(req[r].type)
     IN \/ req' = [ req EXCEPT ![r] =
               IF members = {} THEN Respond(@, "target_not_found")
               ELSE [ @ EXCEPT !.pc = "member", !.toClaim = members,
                               !.pending = members,
                               !.coinsToAdd = amount \div Cardinality(members) ] ]
        \/ req' = [ req EXCEPT ![r] = Respond(@, "error") ]   \* regsError
  /\ UNCHANGED <<profiles, ledger, event_team_stats, teamAwards, budget, NotAward>>

\* for (const telegramId of members): the profile is read; on an error the
\* member is skipped
AwardTeamProfile(r) ==
  /\ req[r].kind = "award_team" /\ req[r].pc = "member"
  /\ \E telegramId \in req[r].pending :
       \/ req' = [ req EXCEPT ![r].pc = "update", ![r].target = telegramId,
                              ![r].newBalance = profiles[telegramId] + req[r].coinsToAdd ]
       \/ req' = [ req EXCEPT ![r] =                        \* profileError: continue
                     AfterMember(@, req[r].pending \ {telegramId}) ]
  /\ UNCHANGED <<profiles, ledger, event_team_stats, teamAwards, budget, NotAward>>

\* profiles.update({balance: newBalance}); the result is not looked at
AwardTeamUpdate(r) ==
  /\ req[r].kind = "award_team" /\ req[r].pc = "update"
  /\ \/ profiles' = [ profiles EXCEPT ![req[r].target] = req[r].newBalance ]
     \/ UNCHANGED profiles
  /\ req' = [ req EXCEPT ![r] =
       AfterMember([ @ EXCEPT !.writes = @ \cup {"balance"} ],
                   req[r].pending \ {req[r].target}) ]
  /\ UNCHANGED <<ledger, event_team_stats, teamAwards, budget, NotAward>>

\* select total_coins_earned, bingo_wins_count from event_team_stats, maybeSingle()
AwardTeamStats(r) ==
  /\ req[r].kind = "award_team" /\ req[r].pc = "stats"
  /\ req' = [ req EXCEPT ![r].pc = "stats_write",
                         ![r].stats = event_team_stats[<<req[r].team_id, req[r].eventId>>] ]
  /\ UNCHANGED <<profiles, ledger, event_team_stats, teamAwards, budget, NotAward>>

\* the row of the team after the update or the insert of the handler
TeamStatsWritten(existingStats, current, amount) ==
  IF existingStats.exists
    THEN [ exists |-> TRUE,
           total_coins_earned |-> existingStats.total_coins_earned + amount,
           bingo_wins_count |-> existingStats.bingo_wins_count + 1 ]
  ELSE IF current.exists THEN current            \* the insert meets the stored row
  ELSE [ exists |-> TRUE, total_coins_earned |-> amount, bingo_wins_count |-> 1 ]

\* update or insert of the statistics, the result is not looked at; 200
AwardTeamStatsWrite(r) ==
  /\ req[r].kind = "award_team" /\ req[r].pc = "stats_write"
  /\ LET k == <<req[r].team_id, req[r].eventId>>
         amount == REWARD_TYPES(req[r].type)
     IN /\ \/ event_team_stats' =
                 [ event_team_stats EXCEPT ![k] = TeamStatsWritten(req[r].stats, @, amount) ]
           \/ UNCHANGED event_team_stats
        /\ teamAwards' = [ teamAwards EXCEPT ![k].coins = @ + amount, ![k].wins = @ + 1 ]
        /\ ledger' = [ u \in Users |->
                         IF u \in req[r].toClaim THEN ledger[u] + req[r].coinsToAdd
                         ELSE ledger[u] ]
  /\ req' = [ req EXCEPT ![r] = Respond([ @ EXCEPT !.writes = @ \cup {"stats"} ], "ok") ]
  /\ UNCHANGED <<profiles, budget, NotAward>>

\* the registrations of e1, all with team t1
AwardRegistrations ==
  { [ k \in Events \X Users |-> IF k[1] = "e1" /\ k[2] \in m THEN 1 ELSE 0 ] :
      m \in { {"u1"}, {"u1", "u2"} } }

InitAward ==
  /\ catalog = Items
  /\ profiles = [ u \in Users |-> 0 ]
  /\ catalog_purchase_codes = InitPurchaseCodes
  /\ tickets = {}
  /\ user_stats = InitStats
  /\ event_prize_codes = InitPrizeCodes
  /\ prizeCredited = [ c \in PrizeCodes |-> 0 ]
  /\ codes = InitCodes
  /\ transactionTokens = << >>
  /\ events = InitEvents
  /\ registrations \in AwardRegistrations
  /\ ledger = profiles
  /\ user_achievements = InitAchievements
  /\ rewardCoins = [ u \in Users |-> [ k \in RewardKeys |-> 0 ] ]
  /\ unlockReports = [ k \in Users \X Slugs |-> 0 ]
  /\ now = 1
  /\ budget = MaxAwardStarts
  /\ issued = NoIssued
  /\ event_team_stats = NoTeamStats
  /\ teamAwards = NoTeamAwards
  /\ req = [ r \in Reqs |-> IdleReq ]

NextAward ==
  \/ \E r \in Reqs, in \in AwardInputs : AwardTeamStart(r, in[1], in[2], in[3])
  \/ \E r \in Reqs : AwardTeamRegs(r)
  \/ \E r \in Reqs : AwardTeamProfile(r)
  \/ \E r \in Reqs : AwardTeamUpdate(r)
  \/ \E r \in Reqs : AwardTeamStats(r)
  \/ \E r \in Reqs : AwardTeamStatsWrite(r)

SpecAward == InitAward /\ [][NextAward]_vars

\* C38: once no award is in flight, every member of an awarded team has
\* received floor(amount / memberCount) coins for each award answered with
\* success, the team's total_coins_earned has grown by the full amount and
\* its bingo_wins_count by 1 for each such award; an award answered 404 has
\* written nothing.
C38_TeamAwardArithmetic ==
  /\ NoneInFlight =>
       /\ profiles = ledger
       /\ \A k \in AwardTeams :
            /\ event_team_stats[k].total_coins_earned = teamAwards[k].coins
            /\ event_team_stats[k].bingo_wins_count = teamAwards[k].wins
  /\ \A r \in Reqs :
       (req[r].kind = "award_team" /\ req[r].result = "target_not_found")
         => req[r].writes = {}

\* C39: a /process request refused because the caller issued the token (403)
\* or because a subtraction exceeds the balance (400) changes no balance and
\* leaves the map of tokens as it is; a token leaves the map only when it is
\* past expiresAt or in the step that answers success for it.
C39_RejectionKeepsToken ==
  [][ /\ \A r \in Reqs :
           /\ (ProcessHead(r) /\ req'[r].result = "forbidden")
                => /\ profiles' = profiles
                   /\ transactionTokens' = transactionTokens
                   /\ \E t \in DOMAIN transactionTokens :
                        transactionTokens[t].telegramId = req'[r].telegramId
           /\ ( /\ req[r].kind = "process" /\ req[r].pc = "profile"
                /\ req'[r].pc = "done" /\ req'[r].result = "insufficient" )
                => /\ profiles' = profiles
                   /\ transactionTokens' = transactionTokens
                   /\ req[r].type = "subtract"
                   /\ profiles[req[r].target] < req[r].price
      /\ \A t \in DOMAIN transactionTokens \ DOMAIN transactionTokens' :
           \/ Expired(t)
           \/ \E r \in Reqs :
                /\ req[r].kind = "process" /\ req[r].pc = "update"
                /\ req[r].rowId = t /\ req'[r].result = "ok" ]_vars

\* u2 scanned the token u2 had issued and was refused; afterwards u1 scanned
\* it and it was applied to u2's balance
C39_Witness ==
  \E r, q \in Reqs :
    /\ req[r].kind = "process" /\ req[r].pc = "done"
    /\ req[r].result = "forbidden" /\ req[r].telegramId = "u2"
    /\ req[q].kind = "process" /\ req[q].pc = "done"
    /\ req[q].result = "ok" /\ req[q].telegramId = "u1"
    /\ ledger["u2"] # MaxBalance /\ profiles["u2"] = ledger["u2"]
    /\ "tokNew" \notin DOMAIN transactionTokens

\* C40: a scan of a value that is a stored purchase code and no ticket changes
\* no table; when the code is not redeemed the scan is refused, and when it
\* is redeemed the scan returns the buyer and the item (or fails to load them).
C40_PurchaseScanReadsOnly ==
  [][ \A r \in Reqs :
        ( /\ HeadOf(r) \/ Answered(r)
          /\ req'[r].kind = "scan" /\ req'[r].pc = "done"
          /\ req'[r].code \in DOMAIN catalog_purchase_codes
          /\ ~TicketCodeTaken(req'[r].code) )
        => /\ tables' = tables
           /\ IsUsed(req'[r].code) => req'[r].result \in {"ok", "error"}
           /\ ~IsUsed(req'[r].code) => req'[r].result # "ok" ]_vars

====
